---- MODULE Spec2Model ----
(***************************************************************************)
(* RLox: a tree-walking Lox interpreter.  The evaluator is modelled as a   *)
(* small-step machine: `ctl` is the statement or expression being          *)
(* interpreted (or the Result being returned), `stack` holds the Rust call *)
(* frames of interpret / interpret_statement / interpret_expression /      *)
(* execute_block / Callable::call that wait for it.  Environments are      *)
(* Rc<RefCell<Environment>> handles: indices into `heap`.                  *)
(***************************************************************************)
EXTENDS Integers, Sequences, FiniteSets, TLC

VARIABLES
    heap,         \* every Environment allocated so far, by handle (1..Len)
    environment,  \* Interpreter.environment: handle of the current scope
    stack,        \* the Rust frames waiting for a result, innermost last
    ctl,          \* what is being interpreted / the Result being returned
    output,       \* lines written by println!
    result,       \* what Interpreter::interpret returned to the driver
    program,      \* the batch given to Interpreter::interpret
    last,         \* the last Environment operation applied and its outcome
    source,       \* Lox::run's argument: the characters of the source text
    scanned,      \* what Scanner::scan returned
    parsed        \* what Parser::parse returned

\* the locals of Lox::run
driver == <<source, scanned, parsed>>

vars == <<heap, environment, stack, ctl, output, result, program, last, driver>>

----------------------------------------------------------------------------
(* Bounds of the model *)

\* deepest nesting of blocks / ifs / whiles / calls around a leaf statement
MaxDepth == 2
\* how many times the closure scenarios call their function
MaxCalls == 3
\* longest scope chain explored by the Environment harness
MaxScopes == 3
\* most arguments passed to the two-parameter function
MaxArgs == 3
\* most iterations of the for loops
MaxIterations == 2
\* longest source text given to Scanner::scan on its own
MaxSource == 4
\* longest run of arbitrary tokens in the slices given to Parser::parse
MaxTokens == 3
\* the caps of finish_call and function_declaration, 255 in parser.rs, scaled
\* down with the inputs
ArgumentCap == 3
ParameterCap == 3

----------------------------------------------------------------------------
(* value.rs: LoxValue, LoxError, Callable *)

Number(n) == [kind |-> "Number", n |-> n]
String(s) == [kind |-> "String", s |-> s]
Bool(b) == [kind |-> "Bool", b |-> b]
Nil == [kind |-> "Nil"]
\* (): what a statement's Ok carries
Unit == [kind |-> "Unit"]

\* Callable::Function { arity, func_stmt, environment }
Function(arity, func_stmt, env) ==
    [kind |-> "Callable", variant |-> "Function", arity |-> arity,
     func_stmt |-> func_stmt, environment |-> env]

\* Callable::Native { arity, func }
Native(arity, func) ==
    [kind |-> "Callable", variant |-> "Native", arity |-> arity, func |-> func]

\* LoxError::Standard(String): the format string and what fills its holes
Standard(msg) == [kind |-> "Standard", msg |-> msg]
Msg(text) == [text |-> text]
\* LoxError::Return(Return { value }): value is an Option, <<>> or <<v>>
Return(value) == [kind |-> "Return", value |-> value]

Ok(v) == [ok |-> TRUE, v |-> v]
Err(e) == [ok |-> FALSE, err |-> e]

\* panic!(..): what an operator yields where the source panics
Panicked == [ok |-> FALSE, err |-> [kind |-> "panic"]]
IsPanic(r) == ~r.ok /\ r.err.kind = "panic"

\* a truthiness that also takes the number 0 for false
is_truthyFalsyZero(v) ==
    CASE v.kind = "Nil" -> FALSE
      [] v.kind = "Bool" -> v.b
      [] v.kind = "Number" -> v.n # 0
      [] OTHER -> TRUE

\* LoxValue::is_truthy (value.rs 47-53): only nil and false are falsy
is_truthy(v) ==
    CASE v.kind = "Nil" -> FALSE
      [] v.kind = "Bool" -> v.b
      [] OTHER -> TRUE

\* f64 == on the numbers of the model, n or the ratio n / over: x / 0 is an
\* infinity with the sign of x, 0 / 0 is NaN, which equals nothing
F64Eq(l, r) ==
    LET lo == IF "over" \in DOMAIN l THEN l.over ELSE 1
        ro == IF "over" \in DOMAIN r THEN r.over ELSE 1
    IN IF (l.n = 0 /\ lo = 0) \/ (r.n = 0 /\ ro = 0) THEN FALSE
       ELSE IF lo = 0 \/ ro = 0 THEN lo = 0 /\ ro = 0 /\ (l.n > 0 <=> r.n > 0)
       ELSE l.n * ro = r.n * lo

\* an equality under which a value is equal to itself, callables included
LoxEqSame(l, r) == l = r

\* impl PartialEq for LoxValue
LoxEq(l, r) ==
    CASE l.kind = "Number" /\ r.kind = "Number" -> F64Eq(l, r)
      [] l.kind = "String" /\ r.kind = "String" -> l.s = r.s
      [] l.kind = "Bool" /\ r.kind = "Bool" -> l.b = r.b
      [] l.kind = "Nil" /\ r.kind = "Nil" -> TRUE
      [] OTHER -> FALSE

\* impl fmt::Display for LoxValue / Callable: the line println! writes
Display(v) ==
    CASE v.kind = "Number" -> [d |-> "number", n |-> v.n]
      [] v.kind = "String" -> [d |-> "text", s |-> v.s]
      [] v.kind = "Bool" -> [d |-> "text", s |-> IF v.b THEN "true" ELSE "false"]
      [] v.kind = "Nil" -> [d |-> "text", s |-> "nil"]
      [] v.kind = "Callable" /\ v.variant = "Function" ->
            [d |-> "Function : ", n |-> v.arity]
      [] OTHER -> [d |-> "text", s |-> "Native function"]

----------------------------------------------------------------------------
(* Token { token_type, line }.  A TokenType is kept as the name of its     *)
(* variant; the payload of Identifier(String), String(String) and          *)
(* Number(f64) is a field of the token.                                    *)

Token(token_type, line) == [token_type |-> token_type, line |-> line]
IdentifierToken(lexeme, line) ==
    [token_type |-> "Identifier", lexeme |-> lexeme, line |-> line]
StringToken(string, line) == [token_type |-> "String", lexeme |-> string, line |-> line]
NumberToken(num, line) == [token_type |-> "Number", n |-> num, line |-> line]

\* std::mem::discriminant(&token.token_type)
discriminant(token) == token.token_type

----------------------------------------------------------------------------
(* environment.rs: Environment { enclosed, values } behind a handle *)

\* Option::None for `enclosed`
NoEnv == 0

EmptyMap == [x \in {} |-> Nil]

\* Environment::new: allocates the next handle
new(h) == Append(h, [enclosed |-> NoEnv, values |-> EmptyMap])

\* a new_enclosed that forgets the enclosing scope
newDetached(h, enclosing) == Append(h, [enclosed |-> NoEnv, values |-> EmptyMap])

\* Environment::new_enclosed
new_enclosed(h, enclosing) ==
    Append(h, [enclosed |-> enclosing, values |-> EmptyMap])

\* Environment::define: HashMap::insert into this scope
define(h, env, name, value) ==
    [h EXCEPT ![env].values = (name :> value) @@ @]

UndefinedAssign(name) == Standard([text |-> "Undefined variable '{}'.", name |-> name])
UndefinedGet(name) == Standard([text |-> "Undefined variable: {}", name |-> name])

\* an assign that tries the enclosing scopes before the scope itself
RECURSIVE assignOuterFirst(_, _, _, _)
assignOuterFirst(h, env, name, value) ==
    LET inner == IF h[env].enclosed # NoEnv
                 THEN assignOuterFirst(h, h[env].enclosed, name, value)
                 ELSE [ok |-> FALSE, heap |-> h, err |-> UndefinedAssign(name)]
    IN IF inner.ok THEN inner
       ELSE IF name \in DOMAIN h[env].values
            THEN [ok |-> TRUE, heap |-> define(h, env, name, value)]
            ELSE [ok |-> FALSE, heap |-> h, err |-> UndefinedAssign(name)]

\* Environment::assign: the Result and the heap after it
RECURSIVE assign(_, _, _, _)
assign(h, env, name, value) ==
    IF name \in DOMAIN h[env].values
    THEN [ok |-> TRUE, heap |-> [h EXCEPT ![env].values = (name :> value) @@ @]]
    ELSE LET inner == IF h[env].enclosed # NoEnv
                      THEN assign(h, h[env].enclosed, name, value)
                      ELSE [ok |-> FALSE, heap |-> h, err |-> UndefinedAssign(name)]
         IN IF inner.ok THEN inner
            ELSE [ok |-> FALSE, heap |-> h, err |-> UndefinedAssign(name)]

\* a get that tries the enclosing scopes before the scope itself
RECURSIVE getOuterFirst(_, _, _)
getOuterFirst(h, env, token) ==
    IF discriminant(token) # "Identifier" THEN Panicked
    ELSE LET outer == IF h[env].enclosed # NoEnv
                      THEN getOuterFirst(h, h[env].enclosed, token)
                      ELSE Err(UndefinedGet(token.lexeme))
         IN IF outer.ok THEN outer
            ELSE IF token.lexeme \in DOMAIN h[env].values
                 THEN Ok(h[env].values[token.lexeme])
                 ELSE Err(UndefinedGet(token.lexeme))

\* Environment::get
RECURSIVE get(_, _, _)
get(h, env, token) ==
    IF discriminant(token) = "Identifier"
    THEN IF token.lexeme \in DOMAIN h[env].values
         THEN Ok(h[env].values[token.lexeme])
         ELSE IF h[env].enclosed # NoEnv
              THEN get(h, h[env].enclosed, token)
              ELSE Err(UndefinedGet(token.lexeme))
    ELSE Panicked

----------------------------------------------------------------------------
(* expression.rs: Expr.  The Token fields hold tokens. *)

ENumber(n) == [t |-> "Number", n |-> n]
EString(s) == [t |-> "String", s |-> s]
ETrue == [t |-> "True"]
EFalse == [t |-> "False"]
ENil == [t |-> "Nil"]
Grouping(e) == [t |-> "Grouping", e |-> e]
Unary(op, e) == [t |-> "Unary", op |-> op, e |-> e]
Binary(l, op, r) == [t |-> "Binary", l |-> l, op |-> op, r |-> r]
Variable(name) == [t |-> "Variable", name |-> name]
Assignment(name, e) == [t |-> "Assignment", name |-> name, e |-> e]
Logical(l, op, r) == [t |-> "Logical", l |-> l, op |-> op, r |-> r]
Call(callee, paren, arguments) ==
    [t |-> "Call", callee |-> callee, paren |-> paren, arguments |-> arguments]

(* statement.rs: Stmt, FuncStmt.  An Option is <<>> or <<x>>. *)

SPrint(e) == [t |-> "Print", e |-> e]
ExprStmt(e) == [t |-> "Expr", e |-> e]
Var(name, init) == [t |-> "Var", name |-> name, init |-> init]
Block(statements) == [t |-> "Block", statements |-> statements]
If(cond, then, else) == [t |-> "If", cond |-> cond, then |-> then, else |-> else]
While(cond, body) == [t |-> "While", cond |-> cond, body |-> body]
FuncStmt(name, params, body) ==
    [t |-> "Function", name |-> name, params |-> params, body |-> body]
Ret(value) == [t |-> "Ret", value |-> value]

----------------------------------------------------------------------------
(* interpreter.rs: Interpreter::interpret_binary_expression, the match on  *)
(* (left, token_type, right) after both operands are evaluated             *)

NumbersOnly == {"Minus", "Star", "Slash", "Less", "LessEqual", "Greater", "GreaterEqual"}

\* f64 division on the integers the model uses: the quotient when it is an
\* integer, otherwise (a fraction, or IEEE inf / nan for x / 0) the ratio itself
Div(l, r) == IF r # 0 /\ l % r = 0 THEN Number(l \div r)
             ELSE [kind |-> "Number", n |-> l, over |-> r]

BinaryOp(left, token, right) ==
    CASE left.kind = "Number" /\ right.kind = "Number" /\ discriminant(token) = "Plus" ->
            Ok(Number(left.n + right.n))
      [] left.kind = "String" /\ right.kind = "String" /\ discriminant(token) = "Plus" ->
            Ok(String(left.s \o right.s))
      [] left.kind = "Number" /\ right.kind = "Number" /\ discriminant(token) = "Minus" ->
            Ok(Number(left.n - right.n))
      [] left.kind = "Number" /\ right.kind = "Number" /\ discriminant(token) = "Slash" ->
            Ok(Div(left.n, right.n))
      [] left.kind = "Number" /\ right.kind = "Number" /\ discriminant(token) = "Star" ->
            Ok(Number(left.n * right.n))
      [] left.kind = "Number" /\ right.kind = "Number" /\ discriminant(token) = "Less" ->
            Ok(Bool(left.n < right.n))
      [] left.kind = "Number" /\ right.kind = "Number" /\ discriminant(token) = "LessEqual" ->
            Ok(Bool(left.n <= right.n))
      [] left.kind = "Number" /\ right.kind = "Number" /\ discriminant(token) = "Greater" ->
            Ok(Bool(left.n > right.n))
      [] left.kind = "Number" /\ right.kind = "Number" /\ discriminant(token) = "GreaterEqual" ->
            Ok(Bool(left.n >= right.n))
      [] discriminant(token) = "EqualEqual" -> Ok(Bool(LoxEq(left, right)))
      [] discriminant(token) = "BangEqual" -> Ok(Bool(~LoxEq(left, right)))
      [] discriminant(token) \in NumbersOnly ->
            Err(Standard([text |-> "Error in line: {}, operands must both be numbers.",
                          line |-> token.line]))
      [] discriminant(token) = "Plus" ->
            Err(Standard([text |-> "Error in line: {}, operands must both be numbers or strings.",
                          line |-> token.line]))
      [] OTHER -> Panicked

----------------------------------------------------------------------------
(* The machine *)

global == 1

Top == stack[Len(stack)]
Below == SubSeq(stack, 1, Len(stack) - 1)
Push(f) == Append(stack, f)
Replace(f) == Append(Below, f)

Idle == [m |-> "idle"]
Exec(s) == [m |-> "stmt", stmt |-> s]
Eval(e) == [m |-> "expr", expr |-> e]
Done(r) == [m |-> "ret", r |-> r]
\* the thread has panicked: nothing runs after it
Panic == [m |-> "panic"]
\* a Result comes back to the frame below, or the panic unwinds
Back(r) == IF IsPanic(r) THEN Panic ELSE Done(r)

Executing(t) == ctl.m = "stmt" /\ ctl.stmt.t = t
Evaluating(t) == ctl.m = "expr" /\ ctl.expr.t = t
\* a Result is being handed to the frame of kind k
Returned(k) == ctl.m = "ret" /\ Len(stack) > 0 /\ Top.k = k
ReturnedOk(k) == Returned(k) /\ ctl.r.ok
ReturnedErr(k) == Returned(k) /\ ~ctl.r.ok

NoResult == [state |-> "none"]

\* the native `clock` closure of Interpreter::new
clock == Native(0, "clock")

\* Interpreter::new, as main calls it before anything runs
InterpreterNew ==
    /\ heap = define(new(<<>>), global, "clock", clock)
    /\ environment = global
    /\ stack = <<>>
    /\ ctl = Idle
    /\ output = <<>>
    /\ result = NoResult
    /\ program = [name |-> "none", body |-> <<>>]
    /\ last = [op |-> "none"]

Init ==
    /\ InterpreterNew
    /\ source = <<>>
    /\ scanned = NoResult
    /\ parsed = NoResult

----------------------------------------------------------------------------
(* Interpreter::interpret: for statement in statements { ...? } Ok(()) *)

InterpretNext ==
    /\ ReturnedOk("interpret")
    /\ Top.rest # <<>>
    /\ ctl' = Exec(Head(Top.rest))
    /\ stack' = Replace([Top EXCEPT !.rest = Tail(@)])
    /\ UNCHANGED <<heap, environment, output, result, program, last, driver>>

InterpretOk ==
    /\ ReturnedOk("interpret")
    /\ Top.rest = <<>>
    /\ result' = Ok(Unit)
    /\ ctl' = Idle
    /\ stack' = <<>>
    /\ UNCHANGED <<heap, environment, output, program, last, driver>>

\* an interpret that drops the Err of a statement and goes on with the next
InterpretErrContinue ==
    /\ ReturnedErr("interpret")
    /\ ctl' = Done(Ok(Unit))
    /\ UNCHANGED <<heap, environment, stack, output, result, program, last, driver>>

InterpretErr ==
    /\ ReturnedErr("interpret")
    /\ result' = ctl.r
    /\ ctl' = Idle
    /\ stack' = <<>>
    /\ UNCHANGED <<heap, environment, output, program, last, driver>>

\* the `?` of a frame that does nothing else with an Err: it returns it
PropagatingFrames ==
    {"Print", "Var", "If", "While", "Ret", "Unary", "BinaryLeft", "BinaryRight",
     "Assignment", "Logical", "CallCallee", "CallArgs"}

Question ==
    /\ ctl.m = "ret" /\ ~ctl.r.ok
    /\ Len(stack) > 0 /\ Top.k \in PropagatingFrames
    /\ stack' = Below
    /\ UNCHANGED <<heap, environment, ctl, output, result, program, last, driver>>

----------------------------------------------------------------------------
(* Interpreter::interpret_statement *)

StmtPrint ==
    /\ Executing("Print")
    /\ stack' = Push([k |-> "Print"])
    /\ ctl' = Eval(ctl.stmt.e)
    /\ UNCHANGED <<heap, environment, output, result, program, last, driver>>

ContPrint ==
    /\ ReturnedOk("Print")
    /\ output' = Append(output, Display(ctl.r.v))
    /\ stack' = Below
    /\ ctl' = Done(Ok(Unit))
    /\ UNCHANGED <<heap, environment, result, program, last, driver>>

StmtExpr ==
    /\ Executing("Expr")
    /\ stack' = Push([k |-> "Expr"])
    /\ ctl' = Eval(ctl.stmt.e)
    /\ UNCHANGED <<heap, environment, output, result, program, last, driver>>

\* .map(|_| {})
ContExpr ==
    /\ Returned("Expr")
    /\ stack' = Below
    /\ ctl' = IF ctl.r.ok THEN Done(Ok(Unit)) ELSE ctl
    /\ UNCHANGED <<heap, environment, output, result, program, last, driver>>

StmtVar ==
    /\ Executing("Var")
    /\ IF discriminant(ctl.stmt.name) # "Identifier"
       THEN /\ ctl' = Panic
            /\ UNCHANGED <<heap, stack>>
       ELSE IF ctl.stmt.init # <<>>
       THEN /\ stack' = Push([k |-> "Var", name |-> ctl.stmt.name.lexeme])
            /\ ctl' = Eval(ctl.stmt.init[1])
            /\ heap' = heap
       ELSE /\ heap' = define(heap, environment, ctl.stmt.name.lexeme, Nil)
            /\ ctl' = Done(Ok(Unit))
            /\ stack' = stack
    /\ UNCHANGED <<environment, output, result, program, last, driver>>

ContVar ==
    /\ ReturnedOk("Var")
    /\ heap' = define(heap, environment, Top.name, ctl.r.v)
    /\ stack' = Below
    /\ ctl' = Done(Ok(Unit))
    /\ UNCHANGED <<environment, output, result, program, last, driver>>

\* Stmt::Block: new_enclosed(current), then execute_block's mem::replace
StmtBlock ==
    /\ Executing("Block")
    /\ heap' = new_enclosed(heap, environment)
    /\ environment' = Len(heap) + 1
    /\ stack' = Push([k |-> "execute_block", rest |-> ctl.stmt.statements,
                      old |-> environment, scope |-> Len(heap) + 1])
    /\ ctl' = Done(Ok(Unit))
    /\ UNCHANGED <<output, result, program, last, driver>>

StmtIf ==
    /\ Executing("If")
    /\ stack' = Push([k |-> "If", then |-> ctl.stmt.then, else |-> ctl.stmt.else])
    /\ ctl' = Eval(ctl.stmt.cond)
    /\ UNCHANGED <<heap, environment, output, result, program, last, driver>>

ContIf ==
    /\ ReturnedOk("If")
    /\ stack' = Below
    /\ ctl' = IF is_truthy(ctl.r.v) THEN Exec(Top.then)
              ELSE IF Top.else # <<>> THEN Exec(Top.else[1])
              ELSE Done(Ok(Unit))
    /\ UNCHANGED <<heap, environment, output, result, program, last, driver>>

StmtWhile ==
    /\ Executing("While")
    /\ stack' = Push([k |-> "While", cond |-> ctl.stmt.cond, body |-> ctl.stmt.body,
                      at |-> "cond"])
    /\ ctl' = Eval(ctl.stmt.cond)
    /\ UNCHANGED <<heap, environment, output, result, program, last, driver>>

ContWhileCond ==
    /\ ReturnedOk("While") /\ Top.at = "cond"
    /\ IF is_truthy(ctl.r.v)
       THEN /\ stack' = Replace([Top EXCEPT !.at = "body"])
            /\ ctl' = Exec(Top.body)
       ELSE /\ stack' = Below
            /\ ctl' = Done(Ok(Unit))
    /\ UNCHANGED <<heap, environment, output, result, program, last, driver>>

ContWhileBody ==
    /\ ReturnedOk("While") /\ Top.at = "body"
    /\ stack' = Replace([Top EXCEPT !.at = "cond"])
    /\ ctl' = Eval(Top.cond)
    /\ UNCHANGED <<heap, environment, output, result, program, last, driver>>

\* a Stmt::Function that captures a clone of the Environment, not its handle
StmtFunctionSnapshot ==
    /\ Executing("Function")
    /\ IF discriminant(ctl.stmt.name) = "Identifier"
       THEN /\ heap' = define(Append(heap, heap[environment]), environment,
                              ctl.stmt.name.lexeme,
                              Function(Len(ctl.stmt.params), ctl.stmt, Len(heap) + 1))
            /\ ctl' = Done(Ok(Unit))
       ELSE /\ heap' = heap
            /\ ctl' = Panic
    /\ UNCHANGED <<environment, stack, output, result, program, last, driver>>

StmtFunction ==
    /\ Executing("Function")
    /\ IF discriminant(ctl.stmt.name) = "Identifier"
       THEN /\ heap' = define(heap, environment, ctl.stmt.name.lexeme,
                              Function(Len(ctl.stmt.params), ctl.stmt, environment))
            /\ ctl' = Done(Ok(Unit))
       ELSE /\ heap' = heap
            /\ ctl' = Panic
    /\ UNCHANGED <<environment, stack, output, result, program, last, driver>>

StmtRet ==
    /\ Executing("Ret")
    /\ IF ctl.stmt.value # <<>>
       THEN /\ stack' = Push([k |-> "Ret"])
            /\ ctl' = Eval(ctl.stmt.value[1])
       ELSE /\ ctl' = Done(Err(Return(<<>>)))
            /\ stack' = stack
    /\ UNCHANGED <<heap, environment, output, result, program, last, driver>>

ContRet ==
    /\ ReturnedOk("Ret")
    /\ stack' = Below
    /\ ctl' = Done(Err(Return(<<ctl.r.v>>)))
    /\ UNCHANGED <<heap, environment, output, result, program, last, driver>>

----------------------------------------------------------------------------
(* Interpreter::execute_block, after `old = mem::replace(&mut self.environment, new)` *)

ExecuteBlockNext ==
    /\ ReturnedOk("execute_block")
    /\ Top.rest # <<>>
    /\ ctl' = Exec(Head(Top.rest))
    /\ stack' = Replace([Top EXCEPT !.rest = Tail(@)])
    /\ UNCHANGED <<heap, environment, output, result, program, last, driver>>

\* the loop is over: swap `old` back, Ok(())
ExecuteBlockEnd ==
    /\ ReturnedOk("execute_block")
    /\ Top.rest = <<>>
    /\ environment' = Top.old
    /\ stack' = Below
    /\ ctl' = Done(Ok(Unit))
    /\ UNCHANGED <<heap, output, result, program, last, driver>>

\* an execute_block that restores the environment on the Ok path only
ExecuteBlockErrNoSwap ==
    /\ ReturnedErr("execute_block")
    /\ stack' = Below
    /\ UNCHANGED <<heap, environment, ctl, output, result, program, last, driver>>

\* result.is_err(): swap `old` back, return result
ExecuteBlockErr ==
    /\ ReturnedErr("execute_block")
    /\ environment' = Top.old
    /\ stack' = Below
    /\ UNCHANGED <<heap, ctl, output, result, program, last, driver>>

----------------------------------------------------------------------------
(* Interpreter::interpret_expression *)

LiteralValue(e) ==
    CASE e.t = "Number" -> Number(e.n)
      [] e.t = "String" -> String(e.s)
      [] e.t = "True" -> Bool(TRUE)
      [] e.t = "False" -> Bool(FALSE)
      [] e.t = "Nil" -> Nil

ExprLiteral ==
    /\ ctl.m = "expr" /\ ctl.expr.t \in {"Number", "String", "True", "False", "Nil"}
    /\ ctl' = Done(Ok(LiteralValue(ctl.expr)))
    /\ UNCHANGED <<heap, environment, stack, output, result, program, last, driver>>

ExprGrouping ==
    /\ Evaluating("Grouping")
    /\ ctl' = Eval(ctl.expr.e)
    /\ UNCHANGED <<heap, environment, stack, output, result, program, last, driver>>

ExprUnary ==
    /\ Evaluating("Unary")
    /\ IF discriminant(ctl.expr.op) \in {"Bang", "Minus"}
       THEN /\ stack' = Push([k |-> "Unary", op |-> ctl.expr.op])
            /\ ctl' = Eval(ctl.expr.e)
       ELSE /\ stack' = stack
            /\ ctl' = Panic
    /\ UNCHANGED <<heap, environment, output, result, program, last, driver>>

UnaryOp(op, v) ==
    CASE discriminant(op) = "Bang" -> Ok(Bool(~is_truthy(v)))
      [] discriminant(op) = "Minus" ->
            IF v.kind = "Number" THEN Ok(Number(-v.n))
            ELSE Err(Standard(Msg("Error: operand must be a number.")))

ContUnary ==
    /\ ReturnedOk("Unary")
    /\ stack' = Below
    /\ ctl' = Done(UnaryOp(Top.op, ctl.r.v))
    /\ UNCHANGED <<heap, environment, output, result, program, last, driver>>

\* a Binary that starts with its right operand
ExprBinaryRightFirst ==
    /\ Evaluating("Binary")
    /\ stack' = Push([k |-> "BinaryLeft", op |-> ctl.expr.op, right |-> ctl.expr.l])
    /\ ctl' = Eval(ctl.expr.r)
    /\ UNCHANGED <<heap, environment, output, result, program, last, driver>>

ExprBinary ==
    /\ Evaluating("Binary")
    /\ stack' = Push([k |-> "BinaryLeft", op |-> ctl.expr.op, right |-> ctl.expr.r])
    /\ ctl' = Eval(ctl.expr.l)
    /\ UNCHANGED <<heap, environment, output, result, program, last, driver>>

ContBinaryLeft ==
    /\ ReturnedOk("BinaryLeft")
    /\ stack' = Replace([k |-> "BinaryRight", op |-> Top.op, left |-> ctl.r.v])
    /\ ctl' = Eval(Top.right)
    /\ UNCHANGED <<heap, environment, output, result, program, last, driver>>

ContBinaryRight ==
    /\ ReturnedOk("BinaryRight")
    /\ stack' = Below
    /\ ctl' = Back(BinaryOp(Top.left, Top.op, ctl.r.v))
    /\ UNCHANGED <<heap, environment, output, result, program, last, driver>>

\* a lookup that lets the outermost binding of the name win
ExprVariableOuterFirst ==
    /\ Evaluating("Variable")
    /\ ctl' = Back(getOuterFirst(heap, environment, ctl.expr.name))
    /\ UNCHANGED <<heap, environment, stack, output, result, program, last, driver>>

ExprVariable ==
    /\ Evaluating("Variable")
    /\ ctl' = Back(get(heap, environment, ctl.expr.name))
    /\ UNCHANGED <<heap, environment, stack, output, result, program, last, driver>>

ExprAssignment ==
    /\ Evaluating("Assignment")
    /\ IF discriminant(ctl.expr.name) = "Identifier"
       THEN /\ stack' = Push([k |-> "Assignment", name |-> ctl.expr.name.lexeme])
            /\ ctl' = Eval(ctl.expr.e)
       ELSE /\ stack' = stack
            /\ ctl' = Panic
    /\ UNCHANGED <<heap, environment, output, result, program, last, driver>>

ContAssignment ==
    /\ ReturnedOk("Assignment")
    /\ LET a == assign(heap, environment, Top.name, ctl.r.v)
       IN /\ heap' = a.heap
          /\ ctl' = IF a.ok THEN ctl ELSE Done(Err(a.err))
    /\ stack' = Below
    /\ UNCHANGED <<environment, output, result, program, last, driver>>

ExprLogical ==
    /\ Evaluating("Logical")
    /\ IF discriminant(ctl.expr.op) \in {"And", "Or"}
       THEN /\ stack' = Push([k |-> "Logical", op |-> ctl.expr.op, right |-> ctl.expr.r])
            /\ ctl' = Eval(ctl.expr.l)
       ELSE /\ stack' = stack
            /\ ctl' = Panic
    /\ UNCHANGED <<heap, environment, output, result, program, last, driver>>

\* whether the left value is the result (the right operand is skipped)
LeftDecides(op, left) ==
    CASE discriminant(op) = "Or" -> is_truthy(left)
      [] discriminant(op) = "And" -> ~is_truthy(left)

ContLogical ==
    /\ ReturnedOk("Logical")
    /\ stack' = Below
    /\ ctl' = IF LeftDecides(Top.op, ctl.r.v) THEN ctl ELSE Eval(Top.right)
    /\ UNCHANGED <<heap, environment, output, result, program, last, driver>>

----------------------------------------------------------------------------
(* Expr::Call *)

ExprCall ==
    /\ Evaluating("Call")
    /\ stack' = Push([k |-> "CallCallee", arguments |-> ctl.expr.arguments])
    /\ ctl' = Eval(ctl.expr.callee)
    /\ UNCHANGED <<heap, environment, output, result, program, last, driver>>

\* all arguments are collected: line 193, `let arguments = arguments?`
Apply == [m |-> "apply"]

\* an Expr::Call that matches the callee against Callable before the arguments
ContCallCalleeCheckFirst ==
    /\ ReturnedOk("CallCallee")
    /\ IF ctl.r.v.kind # "Callable"
       THEN /\ stack' = Below
            /\ ctl' = Done(Err(Standard(Msg("Can only call functions and classes"))))
       ELSE IF Top.arguments = <<>>
       THEN /\ stack' = Replace([k |-> "CallArgs", callee |-> ctl.r.v,
                                 arguments |-> Top.arguments,
                                 done |-> <<>>, rest |-> <<>>])
            /\ ctl' = Apply
       ELSE /\ stack' = Replace([k |-> "CallArgs", callee |-> ctl.r.v,
                                 arguments |-> Top.arguments,
                                 done |-> <<>>, rest |-> Tail(Top.arguments)])
            /\ ctl' = Eval(Head(Top.arguments))
    /\ UNCHANGED <<heap, environment, output, result, program, last, driver>>

\* the callee is evaluated: start mapping interpret_expression over the arguments
ContCallCallee ==
    /\ ReturnedOk("CallCallee")
    /\ IF Top.arguments = <<>>
       THEN /\ stack' = Replace([k |-> "CallArgs", callee |-> ctl.r.v,
                                 arguments |-> Top.arguments,
                                 done |-> <<>>, rest |-> <<>>])
            /\ ctl' = Apply
       ELSE /\ stack' = Replace([k |-> "CallArgs", callee |-> ctl.r.v,
                                 arguments |-> Top.arguments,
                                 done |-> <<>>, rest |-> Tail(Top.arguments)])
            /\ ctl' = Eval(Head(Top.arguments))
    /\ UNCHANGED <<heap, environment, output, result, program, last, driver>>

ContCallArg ==
    /\ ReturnedOk("CallArgs")
    /\ IF Top.rest = <<>>
       THEN /\ stack' = Replace([Top EXCEPT !.done = Append(@, ctl.r.v)])
            /\ ctl' = Apply
       ELSE /\ stack' = Replace([Top EXCEPT !.done = Append(@, ctl.r.v),
                                            !.rest = Tail(@)])
            /\ ctl' = Eval(Head(Top.rest))
    /\ UNCHANGED <<heap, environment, output, result, program, last, driver>>

Applying == ctl.m = "apply" /\ Len(stack) > 0 /\ Top.k = "CallArgs"

CallNotCallable ==
    /\ Applying
    /\ Top.callee.kind # "Callable"
    /\ stack' = Below
    /\ ctl' = Done(Err(Standard(Msg("Can only call functions and classes"))))
    /\ UNCHANGED <<heap, environment, output, result, program, last, driver>>

\* an arity test that lets surplus arguments through
arity_matchesAtLeast(function, arguments) == function.arity <= Len(arguments)

\* function.arity() == arguments.len()
arity_matches(function, arguments) == function.arity = Len(arguments)

CallArityMismatch ==
    /\ Applying
    /\ Top.callee.kind = "Callable"
    /\ ~arity_matches(Top.callee, Top.done)
    /\ stack' = Below
    /\ ctl' = Done(Err(Standard([text |-> "Expected {} arguments but got {} .",
                                 arity |-> Top.callee.arity, got |-> Len(Top.done)])))
    /\ UNCHANGED <<heap, environment, output, result, program, last, driver>>

\* a call scope enclosed by the caller's environment (dynamic scoping)
capturedDynamic(function, current) == current

\* Callable::call, line 116: the parent of the call's scope
captured(function, current) == function.environment

\* Callable::call, lines 118-122: define each parameter, zipped with the arguments
bind_params(h, env, params, arguments) ==
    LET RECURSIVE go(_, _)
        go(hh, i) == IF i > Len(params) \/ i > Len(arguments) THEN hh
                     ELSE IF discriminant(params[i]) = "Identifier"
                     THEN go(define(hh, env, params[i].lexeme, arguments[i]), i + 1)
                     ELSE go(hh, i + 1)
    IN go(h, 1)

\* function.call(self, &arguments) on a Callable::Function, up to the entry of
\* execute_block(&func_stmt.body, new_environment)
CallFunction ==
    /\ Applying
    /\ Top.callee.kind = "Callable"
    /\ arity_matches(Top.callee, Top.done)
    /\ Top.callee.variant = "Function"
    /\ LET new_environment == Len(heap) + 1
       IN /\ heap' = bind_params(new_enclosed(heap, captured(Top.callee, environment)),
                                 new_environment, Top.callee.func_stmt.params, Top.done)
          /\ environment' = new_environment
          /\ stack' = Replace([k |-> "call", callee |-> Top.callee])
                        \o <<[k |-> "execute_block", rest |-> Top.callee.func_stmt.body,
                              old |-> environment, scope |-> new_environment]>>
    /\ ctl' = Done(Ok(Unit))
    /\ UNCHANGED <<output, result, program, last, driver>>

\* function.call on Callable::Native: the clock closure prints the time, Ok(Nil)
CallNative ==
    /\ Applying
    /\ Top.callee.kind = "Callable"
    /\ arity_matches(Top.callee, Top.done)
    /\ Top.callee.variant = "Native"
    /\ output' = Append(output, [d |-> "duration"])
    /\ stack' = Below
    /\ ctl' = Done(Ok(Nil))
    /\ UNCHANGED <<heap, environment, result, program, last, driver>>

\* a call that catches the return signal and loses its value
call_resultDropValue(r) ==
    IF r.ok THEN Ok(Nil)
    ELSE IF r.err.kind = "Return" THEN Ok(Nil)
    ELSE r

\* Callable::call, lines 124-130: what the call makes of execute_block's result
call_result(r) ==
    IF ~r.ok /\ r.err.kind = "Return" /\ r.err.value # <<>> THEN Ok(r.err.value[1])
    ELSE IF ~r.ok /\ r.err.kind = "Return" THEN Ok(Nil)
    ELSE IF r.ok THEN Ok(Nil)
    ELSE r

ContCall ==
    /\ Returned("call")
    /\ stack' = Below
    /\ ctl' = Done(call_result(ctl.r))
    /\ UNCHANGED <<heap, environment, output, result, program, last, driver>>

----------------------------------------------------------------------------
(* scanner.rs: Scanner { source, tokens, start, current, line, errors }.   *)
(* A char is a one-character string; start and current count from 0 as in  *)
(* the source, so source[i] of the Vec<char> is sc.source[i + 1] here.     *)

DigitChars == <<"0", "1", "2", "3", "4", "5", "6", "7", "8", "9">>
LowerChars == <<"a", "b", "c", "d", "e", "f", "g", "h", "i", "j", "k", "l", "m",
                "n", "o", "p", "q", "r", "s", "t", "u", "v", "w", "x", "y", "z">>
UpperChars == <<"A", "B", "C", "D", "E", "F", "G", "H", "I", "J", "K", "L", "M",
                "N", "O", "P", "Q", "R", "S", "T", "U", "V", "W", "X", "Y", "Z">>

\* char::is_ascii_digit, is_ascii_alphabetic, is_ascii_alphanumeric
is_ascii_digit(c) == \E i \in DOMAIN DigitChars : DigitChars[i] = c
is_ascii_alphabetic(c) ==
    \/ \E i \in DOMAIN LowerChars : LowerChars[i] = c
    \/ \E i \in DOMAIN UpperChars : UpperChars[i] = c
is_ascii_alphanumeric(c) == is_ascii_digit(c) \/ is_ascii_alphabetic(c)

\* '\0', what peek and peek_next return past the end
NUL == "\\0"

\* .iter().collect::<String>()
RECURSIVE collect(_)
collect(chars) == IF chars = <<>> THEN "" ELSE Head(chars) \o collect(Tail(chars))

\* source[from..to] of the Vec<char>
Slice(chars, from, to) == SubSeq(chars, from + 1, to)

\* ScannerError { line, error_type }
ScannerError(line, error_type) == [line |-> line, error_type |-> error_type]

\* Scanner::new
ScannerNew(chars) ==
    [source |-> chars, tokens |-> <<>>, start |-> 0, current |-> 0, line |-> 1,
     errors |-> <<>>]

is_at_end(sc) == sc.current >= Len(sc.source)

current_char(sc) == sc.source[sc.current]

\* Scanner::advance: the char it returns is current_char of the result
advance(sc) == [sc EXCEPT !.current = @ + 1]

add_token(sc, token_type) ==
    [sc EXCEPT !.tokens = Append(@, Token(token_type, sc.line))]

peek(sc) == IF is_at_end(sc) THEN NUL ELSE sc.source[sc.current + 1]

peek_next(sc) ==
    IF sc.current + 1 >= Len(sc.source) THEN NUL ELSE sc.source[sc.current + 2]

\* Scanner::match_char: whether it matched, and the scanner after it.  The char
\* it compares is current_char(), the one scan_token has just consumed.
match_char(sc, expected) ==
    IF is_at_end(sc) THEN [matched |-> FALSE, sc |-> sc]
    ELSE IF current_char(sc) # expected THEN [matched |-> FALSE, sc |-> sc]
    ELSE [matched |-> TRUE, sc |-> [sc EXCEPT !.current = @ + 1]]

\* the closure matches_equal of scan_token
matches_equal(sc, equal, not_equal) ==
    LET m == match_char(sc, "=")
    IN IF m.matched THEN add_token(m.sc, equal) ELSE add_token(m.sc, not_equal)

\* while self.peek() != '\n' && !self.is_at_end() { self.advance(); }
RECURSIVE skip_comment(_)
skip_comment(sc) ==
    IF peek(sc) # "\n" /\ ~is_at_end(sc) THEN skip_comment(advance(sc)) ELSE sc

\* the loop of Scanner::string
RECURSIVE string_body(_)
string_body(sc) ==
    IF peek(sc) # "\"" /\ ~is_at_end(sc)
    THEN string_body(advance(IF peek(sc) = "\n" THEN [sc EXCEPT !.line = @ + 1] ELSE sc))
    ELSE sc

\* Scanner::string
string(sc) ==
    LET body == string_body(sc)
    IN IF is_at_end(body)
       THEN [body EXCEPT !.errors = Append(@, ScannerError(body.line, "UnterminatedString"))]
       ELSE LET closed == advance(body)
                value == collect(Slice(closed.source, closed.start + 1, closed.current - 1))
            IN [closed EXCEPT !.tokens = Append(@, StringToken(value, closed.line))]

\* while self.peek().is_ascii_digit() { self.advance(); }
RECURSIVE digits(_)
digits(sc) == IF is_ascii_digit(peek(sc)) THEN digits(advance(sc)) ELSE sc

DigitValue(c) == (CHOOSE i \in DOMAIN DigitChars : DigitChars[i] = c) - 1

RECURSIVE Decimal(_)
Decimal(chars) ==
    IF chars = <<>> THEN 0
    ELSE 10 * Decimal(SubSeq(chars, 1, Len(chars) - 1)) + DigitValue(chars[Len(chars)])

RECURSIVE Pow10(_)
Pow10(k) == IF k = 0 THEN 1 ELSE 10 * Pow10(k - 1)

RECURSIVE TrimZeros(_)
TrimZeros(chars) ==
    IF chars # <<>> /\ chars[Len(chars)] = "0"
    THEN TrimZeros(SubSeq(chars, 1, Len(chars) - 1)) ELSE chars

\* string_value.parse::<f64>() of digits with an optional `.digits`: the
\* integer, or for a fraction the token's n over a power of ten
parse_f64(chars, line) ==
    LET dot == { i \in DOMAIN chars : chars[i] = "." }
        whole == IF dot = {} THEN chars
                 ELSE SubSeq(chars, 1, (CHOOSE i \in dot : TRUE) - 1)
        frac == IF dot = {} THEN <<>>
                ELSE TrimZeros(SubSeq(chars, (CHOOSE i \in dot : TRUE) + 1, Len(chars)))
    IN IF frac = <<>> THEN NumberToken(Decimal(whole), line)
       ELSE [token_type |-> "Number", n |-> Decimal(whole \o frac),
             over |-> Pow10(Len(frac)), line |-> line]

\* Scanner::number
number(sc) ==
    LET whole == digits(sc)
        all == IF peek(whole) = "." /\ is_ascii_digit(peek_next(whole))
               THEN digits(advance(whole)) ELSE whole
    IN [all EXCEPT !.tokens =
            Append(@, parse_f64(Slice(all.source, all.start, all.current), all.line))]

\* Scanner::default_identifier: the keyword's TokenType, or "" for None
default_identifier(identifier) ==
    CASE identifier = "and" -> "And"
      [] identifier = "class" -> "Class"
      [] identifier = "else" -> "Else"
      [] identifier = "false" -> "False"
      [] identifier = "for" -> "For"
      [] identifier = "fun" -> "Fun"
      [] identifier = "if" -> "If"
      [] identifier = "nil" -> "Nil"
      [] identifier = "or" -> "Or"
      [] identifier = "print" -> "Print"
      [] identifier = "return" -> "Return"
      [] identifier = "super" -> "Super"
      [] identifier = "this" -> "This"
      [] identifier = "true" -> "True"
      [] identifier = "var" -> "Var"
      [] identifier = "while" -> "While"
      [] OTHER -> ""

\* while self.peek().is_ascii_alphanumeric() { self.advance(); }
RECURSIVE alphanumerics(_)
alphanumerics(sc) ==
    IF is_ascii_alphanumeric(peek(sc)) THEN alphanumerics(advance(sc)) ELSE sc

\* Scanner::identifier
identifier(sc) ==
    LET all == alphanumerics(sc)
        value == collect(Slice(all.source, all.start, all.current))
    IN IF default_identifier(value) # ""
       THEN add_token(all, default_identifier(value))
       ELSE [all EXCEPT !.tokens = Append(@, IdentifierToken(value, all.line))]

\* Scanner::scan_token
scan_token(sc) ==
    LET s == advance(sc)
        c == current_char(s)
    IN CASE c = "(" -> add_token(s, "LeftParen")
         [] c = ")" -> add_token(s, "RightParen")
         [] c = "{" -> add_token(s, "LeftBrace")
         [] c = "}" -> add_token(s, "RightBrace")
         [] c = "," -> add_token(s, "Comma")
         [] c = "." -> add_token(s, "Dot")
         [] c = "-" -> add_token(s, "Minus")
         [] c = "+" -> add_token(s, "Plus")
         [] c = ";" -> add_token(s, "Semicolon")
         [] c = "*" -> add_token(s, "Star")
         [] c = "!" -> matches_equal(s, "BangEqual", "Bang")
         [] c = "=" -> matches_equal(s, "EqualEqual", "Equal")
         [] c = "<" -> matches_equal(s, "LessEqual", "Less")
         [] c = ">" -> matches_equal(s, "GreaterEqual", "Greater")
         [] c = "/" -> LET m == match_char(s, "/")
                       IN IF m.matched THEN skip_comment(m.sc) ELSE add_token(m.sc, "Slash")
         [] c \in {" ", "\r", "\t"} -> s
         [] c = "\n" -> [s EXCEPT !.line = @ + 1]
         [] c = "\"" -> string(s)
         [] OTHER ->
              IF is_ascii_digit(c) THEN number(s)
              ELSE IF is_ascii_alphabetic(c) \/ c = "_" THEN identifier(s)
              ELSE [s EXCEPT !.errors =
                        Append(@, ScannerError(s.line, "UnexpectedCharacter"))]

\* Scanner::scan_tokens
RECURSIVE scan_tokens(_)
scan_tokens(sc) ==
    IF ~is_at_end(sc) THEN scan_tokens(scan_token([sc EXCEPT !.start = sc.current]))
    ELSE add_token(sc, "EOF")

\* scan that hands on the tokens it has, whatever the errors
scanKeepingTokens(chars) == Ok(scan_tokens(ScannerNew(chars)).tokens)

\* Scanner::scan
scan(chars) ==
    LET scanner == scan_tokens(ScannerNew(chars))
    IN IF scanner.errors = <<>> THEN Ok(scanner.tokens) ELSE Err(scanner.errors)

----------------------------------------------------------------------------
(* parser.rs: Parser { tokens, current }.  Every parsing method is an       *)
(* operator of the token slice and the cursor it starts at; its Ok carries  *)
(* the cursor it leaves.  current counts from 0: tokens[current] of the     *)
(* slice is tokens[current + 1] here.                                       *)

POk(v, current) == [ok |-> TRUE, v |-> v, current |-> current]

Parser_peek(tokens, current) == tokens[current + 1]

Parser_previous(tokens, current) == tokens[current]

Parser_is_at_end(tokens, current) == discriminant(Parser_peek(tokens, current)) = "EOF"

check(tokens, current, token_type) ==
    IF Parser_is_at_end(tokens, current) THEN FALSE
    ELSE discriminant(Parser_peek(tokens, current)) = token_type

\* Parser::advance: the cursor after it
Parser_advance(tokens, current) ==
    IF ~Parser_is_at_end(tokens, current) THEN current + 1 ELSE current

\* Parser::match_type: whether one of the types is next; the cursor then advances
match_type(tokens, current, types) == \E token_type \in types : check(tokens, current, token_type)

format_error(token, message) ==
    IF discriminant(token) = "EOF"
    THEN Standard([text |-> "Unexpected EOF at line {}. {} ", line |-> token.line,
                   message |-> message])
    ELSE Standard([text |-> "{:?} at line {}. {}", token |-> token, line |-> token.line,
                   message |-> message])

\* a consume that returns the token it checked and leaves the cursor on it
consumeWithoutAdvance(tokens, current, token_type, message) ==
    IF check(tokens, current, token_type)
    THEN POk(Parser_peek(tokens, current), current)
    ELSE Err(format_error(Parser_peek(tokens, current), message))

\* Parser::consume: Ok carries the token consumed
consume(tokens, current, token_type, message) ==
    IF check(tokens, current, token_type)
    THEN POk(Parser_previous(tokens, Parser_advance(tokens, current)),
             Parser_advance(tokens, current))
    ELSE Err(format_error(Parser_peek(tokens, current), message))

\* result?: the rest of the method runs on the Ok, an Err is returned as it is
Try(res, rest(_)) == IF res.ok THEN rest(res) ELSE res

RECURSIVE expression(_, _)
RECURSIVE assignment(_, _)
RECURSIVE unary(_, _)
RECURSIVE statement(_, _)
RECURSIVE declaration(_, _)
RECURSIVE logic_or_loop(_, _, _)
RECURSIVE logic_and_loop(_, _, _)
RECURSIVE parse_binary_expression(_, _, _)
RECURSIVE binary_loop(_, _, _, _)
RECURSIVE call_loop(_, _, _)
RECURSIVE arguments_loop(_, _, _)
RECURSIVE block_loop(_, _, _)

\* a loop of finish_call that lets one more argument through
argumentsLoopOneMore(tokens, current, arguments) ==
    IF Len(arguments) > ArgumentCap
    THEN Err(format_error(Parser_peek(tokens, current), "Cannot have more than 255 arguments"))
    ELSE Try(expression(tokens, current), LAMBDA argument :
             IF match_type(tokens, argument.current, {"Comma"})
             THEN arguments_loop(tokens, argument.current + 1, Append(arguments, argument.v))
             ELSE POk(Append(arguments, argument.v), argument.current))

\* the loop of finish_call, entered when the next token is not `)`
arguments_loop(tokens, current, arguments) ==
    IF Len(arguments) >= ArgumentCap
    THEN Err(format_error(Parser_peek(tokens, current), "Cannot have more than 255 arguments"))
    ELSE Try(expression(tokens, current), LAMBDA argument :
             IF match_type(tokens, argument.current, {"Comma"})
             THEN arguments_loop(tokens, argument.current + 1, Append(arguments, argument.v))
             ELSE POk(Append(arguments, argument.v), argument.current))

finish_call(tokens, current, expr) ==
    Try(IF ~check(tokens, current, "RightParen")
        THEN arguments_loop(tokens, current, <<>>)
        ELSE POk(<<>>, current), LAMBDA arguments :
    Try(consume(tokens, arguments.current, "RightParen", "Expected ')' after arguments."),
        LAMBDA paren : POk(Call(expr, paren.v, arguments.v), paren.current)))

\* Parser::call, after its primary: the loop over `(`
call_loop(tokens, current, expr) ==
    IF match_type(tokens, current, {"LeftParen"})
    THEN Try(finish_call(tokens, current + 1, expr),
             LAMBDA called : call_loop(tokens, called.current, called.v))
    ELSE POk(expr, current)

\* Expr::Number(*num): the payload of the Number token
NumberOf(token) ==
    IF "over" \in DOMAIN token THEN [t |-> "Number", n |-> token.n, over |-> token.over]
    ELSE ENumber(token.n)

primary(tokens, current) ==
    IF match_type(tokens, current, {"False"}) THEN POk(EFalse, current + 1)
    ELSE IF match_type(tokens, current, {"True"}) THEN POk(ETrue, current + 1)
    ELSE IF match_type(tokens, current, {"Nil"}) THEN POk(ENil, current + 1)
    ELSE IF match_type(tokens, current, {"Number", "String"})
    THEN IF discriminant(Parser_previous(tokens, current + 1)) = "Number"
         THEN POk(NumberOf(Parser_previous(tokens, current + 1)), current + 1)
         ELSE POk(EString(Parser_previous(tokens, current + 1).lexeme), current + 1)
    ELSE IF match_type(tokens, current, {"LeftParen"})
    THEN Try(expression(tokens, current + 1), LAMBDA expr :
         Try(consume(tokens, expr.current, "RightParen", "Expected ')' after expression."),
             LAMBDA paren : POk(Grouping(expr.v), paren.current)))
    ELSE IF match_type(tokens, current, {"Identifier"})
    THEN POk(Variable(Parser_previous(tokens, current + 1)), current + 1)
    ELSE Err(format_error(Parser_peek(tokens, current), "Expected expression."))

\* a unary that takes `+` as a prefix operator too
unaryAlsoPlus(tokens, current) ==
    IF match_type(tokens, current, {"Bang", "Minus", "Plus"})
    THEN Try(unary(tokens, current + 1), LAMBDA right :
             POk(Unary(Parser_previous(tokens, current + 1), right.v), right.current))
    ELSE Try(primary(tokens, current), LAMBDA expr : call_loop(tokens, expr.current, expr.v))

unary(tokens, current) ==
    IF match_type(tokens, current, {"Bang", "Minus"})
    THEN Try(unary(tokens, current + 1), LAMBDA right :
             POk(Unary(Parser_previous(tokens, current + 1), right.v), right.current))
    ELSE Try(primary(tokens, current), LAMBDA expr : call_loop(tokens, expr.current, expr.v))

\* the token types and the subexpression each binary level passes to
\* parse_binary_expression
BinaryTokenTypes(level) ==
    CASE level = "equality" -> {"EqualEqual", "BangEqual"}
      [] level = "comparison" -> {"Less", "LessEqual", "Greater", "GreaterEqual"}
      [] level = "addition" -> {"Plus", "Minus"}
      [] level = "multiplication" -> {"Slash", "Star"}

subexpression(level, tokens, current) ==
    CASE level = "equality" -> parse_binary_expression("comparison", tokens, current)
      [] level = "comparison" -> parse_binary_expression("addition", tokens, current)
      [] level = "addition" -> parse_binary_expression("multiplication", tokens, current)
      [] level = "multiplication" -> unary(tokens, current)

\* while self.match_type(token_types) { .. expr = Expr::Binary(..) }
binary_loop(level, tokens, current, expr) ==
    IF match_type(tokens, current, BinaryTokenTypes(level))
    THEN Try(subexpression(level, tokens, current + 1), LAMBDA right :
             binary_loop(level, tokens, right.current,
                         Binary(expr, Parser_previous(tokens, current + 1), right.v)))
    ELSE POk(expr, current)

parse_binary_expression(level, tokens, current) ==
    Try(subexpression(level, tokens, current),
        LAMBDA expr : binary_loop(level, tokens, expr.current, expr.v))

equality(tokens, current) == parse_binary_expression("equality", tokens, current)
comparison(tokens, current) == parse_binary_expression("comparison", tokens, current)
addition(tokens, current) == parse_binary_expression("addition", tokens, current)
multiplication(tokens, current) == parse_binary_expression("multiplication", tokens, current)

logic_and_loop(tokens, current, expr) ==
    IF match_type(tokens, current, {"And"})
    THEN Try(equality(tokens, current + 1), LAMBDA right :
             logic_and_loop(tokens, right.current,
                            Logical(expr, Parser_previous(tokens, current + 1), right.v)))
    ELSE POk(expr, current)

logic_and(tokens, current) ==
    Try(equality(tokens, current), LAMBDA expr : logic_and_loop(tokens, expr.current, expr.v))

logic_or_loop(tokens, current, expr) ==
    IF match_type(tokens, current, {"Or"})
    THEN Try(logic_and(tokens, current + 1), LAMBDA right :
             logic_or_loop(tokens, right.current,
                           Logical(expr, Parser_previous(tokens, current + 1), right.v)))
    ELSE POk(expr, current)

logic_or(tokens, current) ==
    Try(logic_and(tokens, current), LAMBDA expr : logic_or_loop(tokens, expr.current, expr.v))

\* an assignment that rejects its target before it parses the value
assignmentTargetFirst(tokens, current) ==
    Try(logic_or(tokens, current), LAMBDA expr :
        IF match_type(tokens, expr.current, {"Equal"})
        THEN IF expr.v.t # "Variable"
             THEN Err(format_error(Parser_previous(tokens, expr.current + 1),
                                   "Invalid assignment target."))
             ELSE Try(assignment(tokens, expr.current + 1), LAMBDA value :
                      POk(Assignment(expr.v.name, value.v), value.current))
        ELSE expr)

assignment(tokens, current) ==
    Try(logic_or(tokens, current), LAMBDA expr :
        IF match_type(tokens, expr.current, {"Equal"})
        THEN Try(assignment(tokens, expr.current + 1), LAMBDA value :
                 IF expr.v.t = "Variable"
                 THEN POk(Assignment(expr.v.name, value.v), value.current)
                 ELSE Err(format_error(Parser_previous(tokens, expr.current + 1),
                                       "Invalid assignment target.")))
        ELSE expr)

expression(tokens, current) == assignment(tokens, current)

\* the loop of function_declaration, entered when the next token is not `)`
RECURSIVE params_loop(_, _, _)
params_loop(tokens, current, params) ==
    IF Len(params) >= ParameterCap
    THEN Err(format_error(Parser_peek(tokens, current), "Cannot have more than 255 parameters."))
    ELSE Try(consume(tokens, current, "Identifier", "Expected parameter name."), LAMBDA param :
             IF match_type(tokens, param.current, {"Comma"})
             THEN params_loop(tokens, param.current + 1, Append(params, param.v))
             ELSE POk(Append(params, param.v), param.current))

\* Parser::block: while !self.check(&RightBrace) { statements.push(self.declaration()?) }
block_loop(tokens, current, stmts) ==
    IF ~check(tokens, current, "RightBrace")
    THEN Try(declaration(tokens, current),
             LAMBDA stmt : block_loop(tokens, stmt.current, Append(stmts, stmt.v)))
    ELSE POk(stmts, current)

block(tokens, current) ==
    Try(block_loop(tokens, current, <<>>), LAMBDA stmts :
    Try(consume(tokens, stmts.current, "RightBrace", "Expected '}' afted block."),
        LAMBDA brace : POk(stmts.v, brace.current)))

\* Parser::function_declaration("function"), after `fun`
function_declaration(tokens, current) ==
    Try(consume(tokens, current, "Identifier", "Expected function name"), LAMBDA name :
    Try(consume(tokens, name.current, "LeftParen", "Expected '(' after function name"),
        LAMBDA left :
    Try(IF ~check(tokens, left.current, "RightParen")
        THEN params_loop(tokens, left.current, <<>>)
        ELSE POk(<<>>, left.current), LAMBDA params :
    Try(consume(tokens, params.current, "RightParen", "Expected ')' after parameters"),
        LAMBDA right :
    Try(consume(tokens, right.current, "LeftBrace", "Expected '{' before function body."),
        LAMBDA brace :
    Try(block(tokens, brace.current), LAMBDA body :
    POk(FuncStmt(name.v, params.v, body.v), body.current)))))))

\* Parser::var_declaration, after `var`
var_declaration(tokens, current) ==
    Try(consume(tokens, current, "Identifier", "Expected variable name"), LAMBDA name :
    Try(IF match_type(tokens, name.current, {"Equal"})
        THEN Try(expression(tokens, name.current + 1),
                 LAMBDA value : POk(<<value.v>>, value.current))
        ELSE POk(<<>>, name.current), LAMBDA initializer :
    Try(consume(tokens, initializer.current, "Semicolon",
                "Expected ';' after variable declaration"), LAMBDA semicolon :
    POk(Var(name.v, initializer.v), semicolon.current))))

expression_statement(tokens, current) ==
    Try(expression(tokens, current), LAMBDA expr :
    Try(consume(tokens, expr.current, "Semicolon", "Expected ';' after expression."),
        LAMBDA semicolon : POk(ExprStmt(expr.v), semicolon.current)))

\* Parser::if_statement, after `if`
if_statement(tokens, current) ==
    Try(consume(tokens, current, "LeftParen", "Expected '(' after 'if'."), LAMBDA left :
    Try(expression(tokens, left.current), LAMBDA condition :
    Try(consume(tokens, condition.current, "RightParen", "Expected ')' after if condition."),
        LAMBDA right :
    Try(statement(tokens, right.current), LAMBDA then_branch :
    Try(IF match_type(tokens, then_branch.current, {"Else"})
        THEN Try(statement(tokens, then_branch.current + 1),
                 LAMBDA stmt : POk(<<stmt.v>>, stmt.current))
        ELSE POk(<<>>, then_branch.current), LAMBDA else_branch :
    POk(If(condition.v, then_branch.v, else_branch.v), else_branch.current))))))

\* Parser::print_statement, after `print`
print_statement(tokens, current) ==
    Try(expression(tokens, current), LAMBDA value :
    Try(consume(tokens, value.current, "Semicolon", "Expected ';' after value."),
        LAMBDA semicolon : POk(SPrint(value.v), semicolon.current)))

\* Parser::while_statement, after `while`
while_statement(tokens, current) ==
    Try(consume(tokens, current, "LeftParen", "Expected '(' after 'while'."), LAMBDA left :
    Try(expression(tokens, left.current), LAMBDA condition :
    Try(consume(tokens, condition.current, "RightParen",
                "Expected ')' after while condition."), LAMBDA right :
    Try(statement(tokens, right.current), LAMBDA body :
    POk(While(condition.v, body.v), body.current)))))

\* a for_statement that puts the increment before the body
forStatementIncrementFirst(tokens, current) ==
    Try(consume(tokens, current, "LeftParen", "Expected '(' after 'for'."), LAMBDA left :
    Try(IF ~match_type(tokens, left.current, {"Semicolon"})
        THEN Try(IF match_type(tokens, left.current, {"Var"})
                 THEN var_declaration(tokens, left.current + 1)
                 ELSE expression_statement(tokens, left.current),
                 LAMBDA stmt : POk(<<stmt.v>>, stmt.current))
        ELSE POk(<<>>, left.current + 1), LAMBDA initializer :
    Try(IF check(tokens, initializer.current, "Semicolon")
        THEN POk(ETrue, initializer.current)
        ELSE expression(tokens, initializer.current), LAMBDA condition :
    Try(consume(tokens, condition.current, "Semicolon",
                "Expected ';' after loop condition."), LAMBDA semicolon :
    Try(IF check(tokens, semicolon.current, "RightParen")
        THEN POk(<<>>, semicolon.current)
        ELSE Try(expression(tokens, semicolon.current),
                 LAMBDA expr : POk(<<ExprStmt(expr.v)>>, expr.current)), LAMBDA increment :
    Try(consume(tokens, increment.current, "RightParen", "Expected ')' after 'for'."),
        LAMBDA right :
    Try(statement(tokens, right.current), LAMBDA body :
    POk(Block(Append(initializer.v,
                     While(condition.v,
                           IF increment.v # <<>>
                           THEN Block(<<increment.v[1], body.v>>)
                           ELSE body.v))),
        body.current))))))))

\* Parser::for_statement, after `for`
for_statement(tokens, current) ==
    Try(consume(tokens, current, "LeftParen", "Expected '(' after 'for'."), LAMBDA left :
    Try(IF ~match_type(tokens, left.current, {"Semicolon"})
        THEN Try(IF match_type(tokens, left.current, {"Var"})
                 THEN var_declaration(tokens, left.current + 1)
                 ELSE expression_statement(tokens, left.current),
                 LAMBDA stmt : POk(<<stmt.v>>, stmt.current))
        ELSE POk(<<>>, left.current + 1), LAMBDA initializer :
    Try(IF check(tokens, initializer.current, "Semicolon")
        THEN POk(ETrue, initializer.current)
        ELSE expression(tokens, initializer.current), LAMBDA condition :
    Try(consume(tokens, condition.current, "Semicolon",
                "Expected ';' after loop condition."), LAMBDA semicolon :
    Try(IF check(tokens, semicolon.current, "RightParen")
        THEN POk(<<>>, semicolon.current)
        ELSE Try(expression(tokens, semicolon.current),
                 LAMBDA expr : POk(<<ExprStmt(expr.v)>>, expr.current)), LAMBDA increment :
    Try(consume(tokens, increment.current, "RightParen", "Expected ')' after 'for'."),
        LAMBDA right :
    Try(statement(tokens, right.current), LAMBDA body :
    POk(Block(Append(initializer.v,
                     While(condition.v,
                           IF increment.v # <<>>
                           THEN Block(<<body.v, increment.v[1]>>)
                           ELSE body.v))),
        body.current))))))))

\* Parser::return_statement, after `return`
return_statement(tokens, current) ==
    Try(IF check(tokens, current, "Semicolon") THEN POk(<<>>, current)
        ELSE Try(expression(tokens, current), LAMBDA expr : POk(<<expr.v>>, expr.current)),
        LAMBDA value :
    Try(consume(tokens, value.current, "Semicolon", "Expected ';' after return value."),
        LAMBDA semicolon : POk(Ret(value.v), semicolon.current)))

statement(tokens, current) ==
    IF match_type(tokens, current, {"If"}) THEN if_statement(tokens, current + 1)
    ELSE IF match_type(tokens, current, {"Print"}) THEN print_statement(tokens, current + 1)
    ELSE IF match_type(tokens, current, {"LeftBrace"})
    THEN Try(block(tokens, current + 1), LAMBDA stmts : POk(Block(stmts.v), stmts.current))
    ELSE IF match_type(tokens, current, {"While"}) THEN while_statement(tokens, current + 1)
    ELSE IF match_type(tokens, current, {"For"}) THEN for_statement(tokens, current + 1)
    ELSE IF match_type(tokens, current, {"Return"}) THEN return_statement(tokens, current + 1)
    ELSE expression_statement(tokens, current)

declaration(tokens, current) ==
    IF match_type(tokens, current, {"Fun"}) THEN function_declaration(tokens, current + 1)
    ELSE IF match_type(tokens, current, {"Var"}) THEN var_declaration(tokens, current + 1)
    ELSE statement(tokens, current)

\* Parser::parse_statements
RECURSIVE parse_statements_loop(_, _, _)
parse_statements_loop(tokens, current, stmts) ==
    IF ~Parser_is_at_end(tokens, current)
    THEN Try(declaration(tokens, current), LAMBDA stmt :
             parse_statements_loop(tokens, stmt.current, Append(stmts, stmt.v)))
    ELSE POk(stmts, current)

parse_statements(tokens) == parse_statements_loop(tokens, 0, <<>>)

\* Parser::parse: .map_err(|err| vec![err])
parse(tokens) ==
    LET stmts == parse_statements(tokens)
    IN IF stmts.ok THEN Ok(stmts.v) ELSE Err(<<stmts.err>>)

----------------------------------------------------------------------------
(* The batches handed to Interpreter::interpret: statement trees as the    *)
(* parser builds them, each with a name and the parameters it was built    *)
(* from.                                                                   *)

\* the tokens of a one-line source
Id(name) == IdentifierToken(name, 1)
Op(token_type) == Token(token_type, 1)
Paren == Token("RightParen", 1)

\* expressions of `print e;`
PrintedExprs ==
    { Binary(ENumber(1), Op("Plus"), Binary(ENumber(2), Op("Star"), ENumber(3))),
      Binary(Grouping(Binary(ENumber(1), Op("Plus"), ENumber(2))), Op("Star"), ENumber(3)),
      Binary(EString("a"), Op("Plus"), EString("b")),
      Binary(EString("a"), Op("Plus"), ENumber(1)),
      Binary(ENumber(6), Op("Slash"), ENumber(2)),
      Binary(ENumber(1), Op("Slash"), ENumber(0)),
      Binary(ENumber(3), Op("Minus"), ENil),
      Binary(ENumber(1), Op("Less"), ENumber(2)),
      Binary(ENumber(2), Op("LessEqual"), ENumber(2)),
      Binary(ENumber(1), Op("Greater"), ENumber(2)),
      Binary(ENumber(1), Op("GreaterEqual"), EString("x")),
      Binary(ENil, Op("EqualEqual"), ENil),
      Binary(ENumber(1), Op("EqualEqual"), EString("1")),
      Binary(ETrue, Op("BangEqual"), EFalse),
      Binary(Variable(Id("clock")), Op("EqualEqual"), Variable(Id("clock"))),
      Unary(Op("Bang"), ENil),
      Unary(Op("Bang"), ENumber(0)),
      Unary(Op("Minus"), ENumber(2)),
      Unary(Op("Minus"), EString("s")),
      Binary(Variable(Id("missing")), Op("Plus"), ENumber(1)),
      Variable(Id("clock")),
      Call(Variable(Id("clock")), Paren, <<>>),
      Binary(Call(Variable(Id("clock")), Paren, <<>>), Op("Minus"), Call(Variable(Id("clock")), Paren, <<>>)) }

\* the spec's end-to-end scenarios 2 and 3
Scenario2 ==
    << Var(Id("a"), <<EString("hi")>>),
       ExprStmt(Assignment(Id("a"), Binary(Variable(Id("a")), Op("Plus"), EString("!")))),
       SPrint(Variable(Id("a"))) >>

Scenario3 ==
    << Block(<< Var(Id("x"), <<ENumber(1)>>),
                Block(<< Var(Id("x"), <<ENumber(2)>>), SPrint(Variable(Id("x"))) >>),
                SPrint(Variable(Id("x"))) >>) >>

\* scenario 4 with the bound n:  var i = 0; while (i < n) { print i; i = i + 1; }
Scenario4(n) ==
    << Var(Id("i"), <<ENumber(0)>>),
       While(Binary(Variable(Id("i")), Op("Less"), ENumber(n)),
             Block(<< SPrint(Variable(Id("i"))),
                      ExprStmt(Assignment(Id("i"), Binary(Variable(Id("i")), Op("Plus"), ENumber(1)))) >>)) >>

RECURSIVE Repeat(_, _)
Repeat(stmt, n) == IF n = 0 THEN <<>> ELSE <<stmt>> \o Repeat(stmt, n - 1)

\* scenario 5 with n calls of the counter
Counter(n) ==
    << FuncStmt(Id("makeCounter"), <<>>,
         << Var(Id("n"), <<ENumber(0)>>),
            FuncStmt(Id("c"), <<>>,
              << ExprStmt(Assignment(Id("n"), Binary(Variable(Id("n")), Op("Plus"), ENumber(1)))),
                 SPrint(Variable(Id("n"))) >>),
            Ret(<<Variable(Id("c"))>>) >>),
       Var(Id("k"), <<Call(Variable(Id("makeCounter")), Paren, <<>>)>>) >>
    \o Repeat(ExprStmt(Call(Variable(Id("k")), Paren, <<>>)), n)

\* the same counter, made inside a block that has ended when it is called
BlockCounter(n) ==
    << Var(Id("k"), <<>>),
       Block(<< Var(Id("n"), <<ENumber(0)>>),
                FuncStmt(Id("c"), <<>>,
                  << ExprStmt(Assignment(Id("n"), Binary(Variable(Id("n")), Op("Plus"), ENumber(1)))),
                     SPrint(Variable(Id("n"))) >>),
                ExprStmt(Assignment(Id("k"), Variable(Id("c")))) >>) >>
    \o Repeat(ExprStmt(Call(Variable(Id("k")), Paren, <<>>)), n)

\* a free variable of a function body against a caller's local of the same name
Lexical ==
    << Var(Id("a"), <<EString("global")>>),
       FuncStmt(Id("show"), <<>>, << SPrint(Variable(Id("a"))) >>),
       Block(<< Var(Id("a"), <<EString("local")>>),
                ExprStmt(Call(Variable(Id("show")), Paren, <<>>)) >>) >>

\* fun down(n) { var mine = n; if (n > 0) down(n - 1); print mine; }  down(n);
Recursion(n) ==
    << FuncStmt(Id("down"), <<Id("n")>>,
         << Var(Id("mine"), <<Variable(Id("n"))>>),
            If(Binary(Variable(Id("n")), Op("Greater"), ENumber(0)),
               ExprStmt(Call(Variable(Id("down")), Paren, <<Binary(Variable(Id("n")), Op("Minus"), ENumber(1))>>)),
               <<>>),
            SPrint(Variable(Id("mine"))) >>),
       ExprStmt(Call(Variable(Id("down")), Paren, <<ENumber(n)>>)) >>

\* fun peek() { print mine; }  fun set() { var mine = 1; peek(); }  set();
Leak ==
    << FuncStmt(Id("peek"), <<>>, << SPrint(Variable(Id("mine"))) >>),
       FuncStmt(Id("set"), <<>>, << Var(Id("mine"), <<ENumber(1)>>),
                                ExprStmt(Call(Variable(Id("peek")), Paren, <<>>)) >>),
       ExprStmt(Call(Variable(Id("set")), Paren, <<>>)) >>

\* var a = "global";
\* { fun show() { print a; }  show(); ..  var a = "block";  show(); .. }
\* print a;
\* with `before` calls ahead of the declaration in the block and `after` calls
\* behind it
Shadow(before, after) ==
    << Var(Id("a"), <<EString("global")>>),
       Block(<< FuncStmt(Id("show"), <<>>, << SPrint(Variable(Id("a"))) >>) >>
             \o Repeat(ExprStmt(Call(Variable(Id("show")), Paren, <<>>)), before)
             \o << Var(Id("a"), <<EString("block")>>) >>
             \o Repeat(ExprStmt(Call(Variable(Id("show")), Paren, <<>>)), after)),
       SPrint(Variable(Id("a"))) >>

----------------------------------------------------------------------------
(* A leaf statement wrapped in blocks, ifs, whiles and calls *)

Wrappers == {"block", "if", "else", "while", "call"}
Leaves == {"normal", "error", "return", "return value"}

After == SPrint(EString("tail"))

LeafStmt(leaf) ==
    CASE leaf = "normal" -> SPrint(EString("leaf"))
      [] leaf = "error" -> SPrint(Variable(Id("missing")))
      [] leaf = "return" -> Ret(<<>>)
      [] leaf = "return value" -> Ret(<<EString("returned")>>)

\* the statements that put `inner` (and a statement after it) inside wrapper w
Wrap(w, inner) ==
    CASE w = "block" -> << Block(inner \o <<After>>) >>
      [] w = "if" -> << If(ETrue, Block(inner \o <<After>>), <<>>) >>
      [] w = "else" -> << If(ENil, SPrint(EString("then")), <<Block(inner \o <<After>>)>>) >>
      [] w = "while" ->
            << Var(Id("go"), <<ETrue>>),
               While(Variable(Id("go")),
                     Block(<<ExprStmt(Assignment(Id("go"), EFalse))>> \o inner \o <<After>>)) >>
      [] w = "call" ->
            << FuncStmt(Id("f"), <<>>, inner \o <<After>>),
               SPrint(Call(Variable(Id("f")), Paren, <<>>)) >>

RECURSIVE Nest(_, _)
Nest(ws, leaf) ==
    IF ws = <<>> THEN <<LeafStmt(leaf)>>
    ELSE Wrap(Head(ws), Nest(SubSeq(ws, 2, Len(ws)), leaf))

Nested(ws, leaf) ==
    << Var(Id("before"), <<ENumber(1)>>) >> \o Nest(ws, leaf) \o << SPrint(EString("end")) >>

WrapperLists == UNION { [1..d -> Wrappers] : d \in 0..MaxDepth }

----------------------------------------------------------------------------
(* Logical operators and calls whose operands have side effects *)

Lefts == {ENil, EFalse, ETrue, ENumber(0), EString("")}
Rights == {Assignment(Id("a"), ENumber(1)), Variable(Id("missing")), EString("r")}

\* var a = 0; print left op right; print a;
LogicalProgram(op, left, right) ==
    << Var(Id("a"), <<ENumber(0)>>),
       SPrint(Logical(left, Op(op), right)),
       SPrint(Variable(Id("a"))) >>

Callees == {ENumber(1), EString("s"), ENil, Variable(Id("a"))}
ArgLists ==
    { <<>>, <<Assignment(Id("a"), ENumber(1))>>, <<Variable(Id("missing"))>>,
      <<Assignment(Id("a"), ENumber(1)), Variable(Id("missing"))>> }

\* var a = 0; callee(args); print a;
NotCallable(callee, args) ==
    << Var(Id("a"), <<ENumber(0)>>),
       ExprStmt(Call(callee, Paren, args)),
       SPrint(Variable(Id("a"))) >>

RECURSIVE Numbers(_, _)
Numbers(from, n) == IF n = 0 THEN <<>> ELSE <<ENumber(from)>> \o Numbers(from + 1, n - 1)

\* var n = 0; fun inc() { n = n + 1; }  inc(); .. inc();  print n;
Shared(n) ==
    << Var(Id("n"), <<ENumber(0)>>),
       FuncStmt(Id("inc"), <<>>,
         << ExprStmt(Assignment(Id("n"), Binary(Variable(Id("n")), Op("Plus"), ENumber(1)))) >>) >>
    \o Repeat(ExprStmt(Call(Variable(Id("inc")), Paren, <<>>)), n)
    \o << SPrint(Variable(Id("n"))) >>

\* fun f(x, second) { print x; print second; }  { f(1, .., n); }  print "after";
Arity(second, n) ==
    << FuncStmt(Id("f"), <<Id("x"), Id(second)>>, << SPrint(Variable(Id("x"))), SPrint(Variable(Id(second))) >>),
       Block(<< ExprStmt(Call(Variable(Id("f")), Paren, Numbers(1, n))) >>),
       SPrint(EString("after")) >>

\* var i = 0;
\* fun p(x) { print x; return x; }
\* fun loop() {
\*   for (var i = p(0); p(i < n); i = p(i + 1)) { print "body"; }
\* }
\* loop(); print i;
\* as the tokens given to Parser::parse, with each of the three clauses there
\* or not: without the condition the body starts with `if (i >= n) return;`,
\* without the increment it ends with `i = i + 1;`
ForTokens(init, cond, incr, n) ==
    <<Op("Var"), Id("i"), Op("Equal"), NumberToken(0, 1), Op("Semicolon")>>
    \o <<Op("Fun"), Id("p"), Op("LeftParen"), Id("x"), Op("RightParen"), Op("LeftBrace"),
         Op("Print"), Id("x"), Op("Semicolon"), Op("Return"), Id("x"), Op("Semicolon"),
         Op("RightBrace")>>
    \o <<Op("Fun"), Id("loop"), Op("LeftParen"), Op("RightParen"), Op("LeftBrace")>>
    \o <<Op("For"), Op("LeftParen")>>
    \o (IF init THEN <<Op("Var"), Id("i"), Op("Equal"), Id("p"), Op("LeftParen"),
                       NumberToken(0, 1), Op("RightParen")>>
        ELSE <<>>)
    \o <<Op("Semicolon")>>
    \o (IF cond THEN <<Id("p"), Op("LeftParen"), Id("i"), Op("Less"), NumberToken(n, 1),
                       Op("RightParen")>>
        ELSE <<>>)
    \o <<Op("Semicolon")>>
    \o (IF incr THEN <<Id("i"), Op("Equal"), Id("p"), Op("LeftParen"), Id("i"), Op("Plus"),
                       NumberToken(1, 1), Op("RightParen")>>
        ELSE <<>>)
    \o <<Op("RightParen"), Op("LeftBrace")>>
    \o (IF cond THEN <<>>
        ELSE <<Op("If"), Op("LeftParen"), Id("i"), Op("GreaterEqual"), NumberToken(n, 1),
               Op("RightParen"), Op("Return"), Op("Semicolon")>>)
    \o <<Op("Print"), StringToken("body", 1), Op("Semicolon")>>
    \o (IF incr THEN <<>>
        ELSE <<Id("i"), Op("Equal"), Id("i"), Op("Plus"), NumberToken(1, 1), Op("Semicolon")>>)
    \o <<Op("RightBrace"), Op("RightBrace")>>
    \o <<Id("loop"), Op("LeftParen"), Op("RightParen"), Op("Semicolon"),
         Op("Print"), Id("i"), Op("Semicolon"), Token("EOF", 1)>>

\* operands of == and !=: values of every kind, two of each kind that has two
EqOperands ==
    { ENumber(1), ENumber(2), Binary(ENumber(1), Op("Slash"), ENumber(0)),
      Binary(ENumber(0), Op("Slash"), ENumber(0)),
      EString("a"), EString("1"), ETrue, EFalse, ENil,
      Variable(Id("clock")), Variable(Id("f")), Variable(Id("g")) }

\* fun f() {} fun g() {}  print l == r;  print l != r;
Equality(l, r) ==
    << FuncStmt(Id("f"), <<>>, <<>>),
       FuncStmt(Id("g"), <<>>, <<>>),
       SPrint(Binary(l, Op("EqualEqual"), r)),
       SPrint(Binary(l, Op("BangEqual"), r)) >>

\* operands that show when they are evaluated: p(1), p("l") or the undefined
\* variable missing_l on the left, p(2), p("r") or missing_r on the right
Traced(e) == Call(Variable(Id("p")), Paren, <<e>>)
Left(kind) ==
    CASE kind = "number" -> Traced(ENumber(1))
      [] kind = "string" -> Traced(EString("l"))
      [] kind = "fails" -> Variable(Id("missing_l"))
Right(kind) ==
    CASE kind = "number" -> Traced(ENumber(2))
      [] kind = "string" -> Traced(EString("r"))
      [] kind = "fails" -> Variable(Id("missing_r"))

\* fun p(x) { print x; return x; }
\* fun q(a, b) { return 0; }
Tracing ==
    << FuncStmt(Id("p"), <<Id("x")>>, <<SPrint(Variable(Id("x"))), Ret(<<Variable(Id("x"))>>)>>),
       FuncStmt(Id("q"), <<Id("a"), Id("b")>>, <<Ret(<<ENumber(0)>>)>>) >>

\* print "before";  print e;  print "after";
Ordered(e) ==
    Tracing \o <<SPrint(EString("before")), SPrint(e), SPrint(EString("after"))>>

OperandKinds == {"number", "string", "fails"}

Programs ==
    { [name |-> "print", e |-> e, body |-> <<SPrint(e)>>] : e \in PrintedExprs }
    \cup { [name |-> "binary order", op |-> op, left |-> l, right |-> r,
            body |-> Ordered(Binary(Left(l), Op(op), Right(r)))] :
             op \in {"Plus", "Minus"}, l \in OperandKinds, r \in OperandKinds }
    \cup { [name |-> "call order", left |-> l, right |-> r,
            body |-> Ordered(Call(Traced(Variable(Id("q"))), Paren, <<Left(l), Right(r)>>))] :
             l \in OperandKinds, r \in OperandKinds }
    \cup { [name |-> "equality", left |-> l, right |-> r, body |-> Equality(l, r)] :
             l \in EqOperands, r \in EqOperands }
    \cup { [name |-> "for", init |-> init, cond |-> cond, incr |-> incr, n |-> n,
            body |-> parse(ForTokens(init, cond, incr, n)).v] :
             init \in BOOLEAN, cond \in BOOLEAN, incr \in BOOLEAN, n \in 0..MaxIterations }
    \cup { [name |-> "scenario2", body |-> Scenario2],
           [name |-> "scenario3", body |-> Scenario3],
           [name |-> "lexical", body |-> Lexical],
           [name |-> "leak", body |-> Leak] }
    \cup { [name |-> "shadow", before |-> before, after |-> after,
            body |-> Shadow(before, after)] : before \in 0..MaxCalls, after \in 0..MaxCalls }
    \cup { [name |-> "scenario4", n |-> n, body |-> Scenario4(n)] : n \in 0..MaxCalls }
    \cup { [name |-> "counter", n |-> n, body |-> Counter(n)] : n \in 0..MaxCalls }
    \cup { [name |-> "block counter", n |-> n, body |-> BlockCounter(n)] : n \in 0..MaxCalls }
    \cup { [name |-> "recursion", n |-> n, body |-> Recursion(n)] : n \in 0..MaxCalls }
    \cup { [name |-> "nested", ws |-> ws, leaf |-> leaf, body |-> Nested(ws, leaf)] :
             ws \in WrapperLists, leaf \in Leaves }
    \cup { [name |-> "logical", op |-> op, left |-> l, right |-> r,
            body |-> LogicalProgram(op, l, r)] :
             op \in {"And", "Or"}, l \in Lefts, r \in Rights }
    \cup { [name |-> "not callable", callee |-> c, args |-> a, body |-> NotCallable(c, a)] :
             c \in Callees, a \in ArgLists }
    \cup { [name |-> "shared", n |-> n, body |-> Shared(n)] : n \in 0..MaxCalls }
    \cup { [name |-> "arity", second |-> p, n |-> n, body |-> Arity(p, n)] :
             p \in {"x", "y"}, n \in 0..MaxArgs }

\* the driver hands one parsed batch to Interpreter::interpret
Interpret ==
    /\ ctl.m = "idle"
    /\ program.name = "none"
    /\ \E p \in Programs :
          /\ program' = p
          /\ stack' = <<[k |-> "interpret", rest |-> p.body]>>
    /\ ctl' = Done(Ok(Unit))
    /\ UNCHANGED <<heap, environment, output, result, last, driver>>

----------------------------------------------------------------------------
(* main.rs: Lox::run(source).  The source texts it is given, each with the  *)
(* text as a label and its characters. *)

Sources ==
    { [text |-> "print 1;",
       chars |-> <<"p", "r", "i", "n", "t", " ", "1", ";">>],
      [text |-> "print \"a\"; print 2;",
       chars |-> <<"p", "r", "i", "n", "t", " ", "\"", "a", "\"", ";", " ", "p", "r", "i", "n", "t", " ", "2", ";">>],
      [text |-> "var a; print a;",
       chars |-> <<"v", "a", "r", " ", "a", ";", " ", "p", "r", "i", "n", "t", " ", "a", ";">>],
      [text |-> "fun f(x) { return x + 1; } print f(1);",
       chars |-> <<"f", "u", "n", " ", "f", "(", "x", ")", " ", "{", " ", "r", "e", "t", "u", "r", "n", " ", "x", " ", "+", " ", "1", ";", " ", "}", " ", "p", "r", "i", "n", "t", " ", "f", "(", "1", ")", ";">>],
      [text |-> "print missing;",
       chars |-> <<"p", "r", "i", "n", "t", " ", "m", "i", "s", "s", "i", "n", "g", ";">>],
      [text |-> "print 1; @",
       chars |-> <<"p", "r", "i", "n", "t", " ", "1", ";", " ", "@">>],
      [text |-> "@ print 1;",
       chars |-> <<"@", " ", "p", "r", "i", "n", "t", " ", "1", ";">>],
      [text |-> "print 1; # print 2; ^",
       chars |-> <<"p", "r", "i", "n", "t", " ", "1", ";", " ", "#", " ", "p", "r", "i", "n", "t", " ", "2", ";", " ", "^">>],
      [text |-> "print 1; \"abc",
       chars |-> <<"p", "r", "i", "n", "t", " ", "1", ";", " ", "\"", "a", "b", "c">>],
      [text |-> "print 1; print ;",
       chars |-> <<"p", "r", "i", "n", "t", " ", "1", ";", " ", "p", "r", "i", "n", "t", " ", ";">>],
      [text |-> "print 1; (",
       chars |-> <<"p", "r", "i", "n", "t", " ", "1", ";", " ", "(">>],
      [text |-> "var a; print a; }",
       chars |-> <<"v", "a", "r", " ", "a", ";", " ", "p", "r", "i", "n", "t", " ", "a", ";", " ", "}">>],
      [text |-> "var a = 1; print a;",
       chars |-> <<"v", "a", "r", " ", "a", " ", "=", " ", "1", ";", " ", "p", "r", "i", "n", "t", " ", "a", ";">>],
      [text |-> "print 6 / 2; nonsense",
       chars |-> <<"p", "r", "i", "n", "t", " ", "6", " ", "/", " ", "2", ";", " ", "n", "o", "n", "s", "e", "n", "s", "e">>] }

\* println!("Error: {}", string) for each of the strings
ErrorLines(strings) == [i \in DOMAIN strings |-> [d |-> "Error: ", error |-> strings[i]]]

\* Lox::run up to the call of interpret: scan, and_then parse, and_then
\* interpret; an Err of scan or parse is printed and the run is over
run ==
    /\ ctl.m = "idle"
    /\ program.name = "none"
    /\ \E src \in Sources :
       \E tokens \in {scan(src.chars)} :
       \E stmts \in {IF tokens.ok THEN parse(tokens.v) ELSE NoResult} :
             /\ source' = src.chars
             /\ scanned' = tokens
             /\ parsed' = stmts
             /\ IF tokens.ok /\ stmts.ok
                THEN /\ program' = [name |-> "source", text |-> src.text, body |-> stmts.v]
                     /\ stack' = <<[k |-> "interpret", rest |-> stmts.v]>>
                     /\ ctl' = Done(Ok(Unit))
                     /\ output' = output
                ELSE /\ program' = [name |-> "source", text |-> src.text, body |-> <<>>]
                     /\ stack' = stack
                     /\ ctl' = [m |-> "exit"]
                     /\ output' = output \o ErrorLines(IF tokens.ok THEN stmts.err
                                                        ELSE tokens.err)
    /\ UNCHANGED <<heap, environment, result, last>>

\* Lox::run after interpret has returned an Err: match result { Err(strings) => .. }
RunReport ==
    /\ ctl.m = "idle"
    /\ program.name = "source"
    /\ result # NoResult /\ ~result.ok
    /\ output' = output \o ErrorLines(<<result.err>>)
    /\ ctl' = [m |-> "exit"]
    /\ UNCHANGED <<heap, environment, stack, result, program, last, driver>>

Next ==
    \/ Interpret \/ run \/ RunReport \/ InterpretNext \/ InterpretOk \/ InterpretErr \/ Question
    \/ StmtPrint \/ ContPrint \/ StmtExpr \/ ContExpr \/ StmtVar \/ ContVar
    \/ StmtBlock \/ StmtIf \/ ContIf \/ StmtWhile \/ ContWhileCond \/ ContWhileBody
    \/ StmtFunction \/ StmtRet \/ ContRet
    \/ ExecuteBlockNext \/ ExecuteBlockEnd \/ ExecuteBlockErr
    \/ ExprLiteral \/ ExprGrouping \/ ExprUnary \/ ContUnary
    \/ ExprBinary \/ ContBinaryLeft \/ ContBinaryRight
    \/ ExprVariable \/ ExprAssignment \/ ContAssignment \/ ExprLogical \/ ContLogical
    \/ ExprCall \/ ContCallCallee \/ ContCallArg
    \/ CallNotCallable \/ CallArityMismatch \/ CallFunction \/ CallNative \/ ContCall

Spec == Init /\ [][Next]_vars

----------------------------------------------------------------------------
(* The Environment operations on their own: the evaluator's uses of a      *)
(* scope chain (Stmt::Var, Expr::Assignment, Expr::Variable, block entry   *)
(* and exit) applied in any order to any names and values.                 *)

Names == {"a", "b"}
Values == {Number(1), Number(2)}

\* Stmt::Var: self.environment.borrow_mut().define(name, &value)
EnvDefine(n, v) ==
    /\ heap' = define(heap, environment, n, v)
    /\ last' = [op |-> "define", name |-> n, value |-> v, r |-> Ok(Unit)]
    /\ UNCHANGED <<environment, stack, ctl, output, result, program, driver>>

\* Expr::Assignment: self.environment.borrow_mut().assign(name, &value)
EnvAssign(n, v) ==
    /\ LET a == assign(heap, environment, n, v)
       IN /\ heap' = a.heap
          /\ last' = [op |-> "assign", name |-> n, value |-> v,
                      r |-> IF a.ok THEN Ok(Unit) ELSE Err(a.err)]
    /\ UNCHANGED <<environment, stack, ctl, output, result, program, driver>>

\* Expr::Variable: self.environment.borrow().get(&token)
EnvGet(n) ==
    /\ last' = [op |-> "get", name |-> n, value |-> Nil, r |-> get(heap, environment, IdentifierToken(n, 1))]
    /\ UNCHANGED <<heap, environment, stack, ctl, output, result, program, driver>>

\* Stmt::Block entry: new_enclosed(current) becomes the current scope
EnvEnter ==
    /\ Len(heap) < MaxScopes
    /\ heap' = new_enclosed(heap, environment)
    /\ environment' = Len(heap) + 1
    /\ last' = [op |-> "enter", name |-> "", value |-> Nil, r |-> Ok(Unit)]
    /\ UNCHANGED <<stack, ctl, output, result, program, driver>>

\* block exit: the enclosing scope is current again and the block's scope,
\* which nothing else holds, is dropped
EnvExit ==
    /\ environment # global
    /\ environment' = heap[environment].enclosed
    /\ heap' = SubSeq(heap, 1, Len(heap) - 1)
    /\ last' = [op |-> "exit", name |-> "", value |-> Nil, r |-> Ok(Unit)]
    /\ UNCHANGED <<stack, ctl, output, result, program, driver>>

NextEnv ==
    \/ \E n \in Names, v \in Values : EnvDefine(n, v)
    \/ \E n \in Names, v \in Values : EnvAssign(n, v)
    \/ \E n \in Names : EnvGet(n)
    \/ EnvEnter
    \/ EnvExit

SpecEnv == Init /\ [][NextEnv]_vars

----------------------------------------------------------------------------
(* Scanner::scan on its own: every source text of at most MaxSource chars  *)
(* over SourceChars is scanned once.                                       *)

SourceChars == {"a", "1", "\"", "/", "\n", "@", "=", " "}

\* the sequences of at most n elements of alphabet
Lists(alphabet, n) == UNION { [1..k -> alphabet] : k \in 0..n }

InitScan ==
    /\ InterpreterNew
    /\ source \in Lists(SourceChars, MaxSource)
    /\ scanned = NoResult
    /\ parsed = NoResult

Scan ==
    /\ scanned = NoResult
    /\ scanned' = scan(source)
    /\ UNCHANGED <<heap, environment, stack, ctl, output, result, program, last,
                   source, parsed>>

NextScan == Scan

SpecScan == InitScan /\ [][NextScan]_vars

----------------------------------------------------------------------------
(* Parser::parse on its own: every token slice of ParserInputs is parsed   *)
(* once.                                                                   *)

EOF == Token("EOF", 1)
One == NumberToken(1, 1)

\* one token of every TokenType
AllTokens ==
    { Op(token_type) : token_type \in
        {"LeftParen", "RightParen", "LeftBrace", "RightBrace", "Comma", "Dot", "Minus",
         "Plus", "Semicolon", "Slash", "Star", "Bang", "BangEqual", "Equal", "EqualEqual",
         "Greater", "GreaterEqual", "Less", "LessEqual", "And", "Class", "Else", "False",
         "Fun", "For", "If", "Nil", "Or", "Print", "Return", "Super", "This", "True",
         "Var", "While"} }
    \cup {Id("a"), StringToken("s", 1), One}

\* every slice of at most MaxTokens tokens of a small alphabet, before EOF
ShortAlphabet ==
    {Id("a"), One, Op("Equal"), Op("Minus"), Op("Or"), Op("LeftParen"), Op("RightParen"),
     Op("Semicolon"), Op("Comma")}

ShortInputs == { ts \o <<EOF>> : ts \in Lists(ShortAlphabet, MaxTokens) }

\* target = rest: an expression statement that starts with a logic_or
\* expression followed by `=` and by any tokens
AssignTargets ==
    { <<Id("a")>>, <<One>>, <<StringToken("s", 1)>>,
      <<Op("LeftParen"), Id("a"), Op("RightParen")>>,
      <<Id("a"), Op("Plus"), Id("b")>>,
      <<Op("Bang"), Id("a")>>,
      <<Id("a"), Op("Or"), Id("b")>>,
      <<Id("f"), Op("LeftParen"), Op("RightParen")>> }

RestAlphabet ==
    {Id("b"), NumberToken(2, 1), Op("Equal"), Op("Semicolon"), Op("Plus"), Op("RightParen")}

AssignInput(target, rest) == target \o <<Token("Equal", 2)>> \o rest \o <<EOF>>

AssignInputs ==
    { AssignInput(target, rest \o end) : target \in AssignTargets,
                                         rest \in Lists(RestAlphabet, MaxTokens),
                                         end \in {<<>>, <<Op("Semicolon")>>} }

\* a token of any type in each place where the parser reads a name or an operator
HoleInput(place, token) ==
    CASE place = "prefix" -> <<token, Id("a"), Op("Semicolon"), EOF>>
      [] place = "infix" -> <<Id("a"), token, Id("b"), Op("Semicolon"), EOF>>
      [] place = "second infix" ->
            <<Id("a"), Op("Plus"), Id("b"), token, Id("c"), Op("Semicolon"), EOF>>
      [] place = "target" -> <<token, Op("Equal"), One, Op("Semicolon"), EOF>>
      [] place = "var" -> <<Op("Var"), token, Op("Semicolon"), EOF>>
      [] place = "var =" -> <<Op("Var"), token, Op("Equal"), One, Op("Semicolon"), EOF>>
      [] place = "fun" ->
            <<Op("Fun"), token, Op("LeftParen"), Op("RightParen"),
              Op("LeftBrace"), Op("RightBrace"), EOF>>
      [] place = "param" ->
            <<Op("Fun"), Id("f"), Op("LeftParen"), token, Op("RightParen"),
              Op("LeftBrace"), Op("RightBrace"), EOF>>
      [] place = "second param" ->
            <<Op("Fun"), Id("f"), Op("LeftParen"), Id("x"), Op("Comma"), token,
              Op("RightParen"), Op("LeftBrace"), Op("RightBrace"), EOF>>
      [] place = "callee" -> <<token, Op("LeftParen"), Op("RightParen"), Op("Semicolon"), EOF>>
      [] place = "printed" -> <<Op("Print"), token, Op("Semicolon"), EOF>>
      [] place = "for initializer" ->
            <<Op("For"), Op("LeftParen"), token, Op("Semicolon"), Op("Semicolon"),
              Op("RightParen"), Id("a"), Op("Semicolon"), EOF>>
      [] place = "for condition" ->
            <<Op("For"), Op("LeftParen"), Op("Var"), Id("i"), Op("Equal"), One,
              Op("Semicolon"), token, Op("Semicolon"), Id("i"), Op("Equal"), One,
              Op("RightParen"), Op("Print"), Id("i"), Op("Semicolon"), EOF>>
      [] place = "if" ->
            <<Op("If"), Op("LeftParen"), token, Op("RightParen"), Id("a"), Op("Semicolon"),
              Op("Else"), Id("b"), Op("Semicolon"), EOF>>
      [] place = "while" ->
            <<Op("While"), Op("LeftParen"), token, Op("RightParen"),
              Op("LeftBrace"), Id("a"), Op("Semicolon"), Op("RightBrace"), EOF>>
      [] place = "return" ->
            <<Op("Fun"), Id("f"), Op("LeftParen"), Op("RightParen"), Op("LeftBrace"),
              Op("Return"), token, Op("Semicolon"), Op("RightBrace"), EOF>>
      [] place = "block" ->
            <<Op("LeftBrace"), token, Id("a"), Op("Semicolon"), Op("RightBrace"), EOF>>

Places ==
    {"prefix", "infix", "second infix", "target", "var", "var =", "fun", "param",
     "second param", "callee", "printed", "for initializer", "for condition", "if",
     "while", "return", "block"}

HoleInputs == { HoleInput(place, token) : place \in Places, token \in AllTokens }

\* item, item, .. (n times)
RECURSIVE Items(_, _)
Items(item, n) ==
    IF n = 0 THEN <<>>
    ELSE IF n = 1 THEN <<item>>
    ELSE Items(item, n - 1) \o <<Op("Comma"), item>>

\* f(1, .., 1);  with n arguments
CallTokens(n) ==
    <<Id("f"), Op("LeftParen")>> \o Items(One, n)
    \o <<Op("RightParen"), Op("Semicolon"), EOF>>

\* fun f(a, .., a) {}  with n parameters
FunTokens(n) ==
    <<Op("Fun"), Id("f"), Op("LeftParen")>> \o Items(Id("a"), n)
    \o <<Op("RightParen"), Op("LeftBrace"), Op("RightBrace"), EOF>>

CapInputs ==
    { CallTokens(n) : n \in 0..(ArgumentCap + 1) }
    \cup { FunTokens(n) : n \in 0..(ParameterCap + 1) }

\* blocks: a statement that opens a block, then at most MaxTokens tokens of
\* statements, of nested blocks and of closing braces, before EOF
BlockOpeners ==
    { <<Op("LeftBrace")>>,
      <<Op("Fun"), Id("f"), Op("LeftParen"), Op("RightParen"), Op("LeftBrace")>>,
      <<Op("While"), Op("LeftParen"), Id("a"), Op("RightParen"), Op("LeftBrace")>> }

BlockAlphabet == {Id("a"), Op("Semicolon"), Op("LeftBrace"), Op("RightBrace")}

BlockInputs ==
    { opener \o body \o <<EOF>> : opener \in BlockOpeners,
                                   body \in Lists(BlockAlphabet, MaxTokens) }

ParserInputs == ShortInputs \cup AssignInputs \cup HoleInputs \cup CapInputs \cup BlockInputs

InitParse ==
    /\ InterpreterNew
    /\ source = <<>>
    /\ scanned \in { Ok(tokens) : tokens \in ParserInputs }
    /\ parsed = NoResult

Parse ==
    /\ parsed = NoResult
    /\ parsed' = parse(scanned.v)
    /\ UNCHANGED <<heap, environment, stack, ctl, output, result, program, last,
                   source, scanned>>

NextParse == Parse

SpecParse == InitParse /\ [][NextParse]_vars

----------------------------------------------------------------------------
(* Scope chains, stated without the walk of assign / get *)

\* the scopes from e outwards, innermost first
RECURSIVE Chain(_, _)
Chain(h, e) == IF e = NoEnv THEN <<>> ELSE <<e>> \o Chain(h, h[e].enclosed)

Binds(h, e, n) == n \in DOMAIN h[e].values

\* positions of the chain whose scope binds n
Binders(h, e, n) == { i \in 1..Len(Chain(h, e)) : Binds(h, Chain(h, e)[i], n) }

\* the innermost scope of the chain that binds n (Binders is not empty)
Innermost(h, e, n) ==
    Chain(h, e)[CHOOSE i \in Binders(h, e, n) : \A j \in Binders(h, e, n) : i <= j]

IsUndefined(r, text, n) ==
    /\ ~r.ok
    /\ r.err.kind = "Standard"
    /\ r.err.msg.text = text
    /\ r.err.msg.name = n

\* C9: assign(n, v) replaces the value of n in the innermost scope of the chain
\* that binds n and changes nothing else; when no scope of the chain binds n it
\* fails with "Undefined variable" and leaves every scope as it was, so it never
\* creates a binding.
C9_AssignInnermostExisting ==
    [][ last'.op = "assign" =>
          LET n == last'.name
              v == last'.value
          IN IF Binders(heap, environment, n) = {}
             THEN /\ IsUndefined(last'.r, "Undefined variable '{}'.", n)
                  /\ heap' = heap
             ELSE /\ last'.r.ok
                  /\ Len(heap') = Len(heap)
                  /\ \A e \in 1..Len(heap) :
                        /\ heap'[e].enclosed = heap[e].enclosed
                        /\ DOMAIN heap'[e].values = DOMAIN heap[e].values
                        /\ \A m \in DOMAIN heap[e].values :
                              heap'[e].values[m] =
                                 IF e = Innermost(heap, environment, n) /\ m = n
                                 THEN v ELSE heap[e].values[m]
      ]_vars

\* an assignment from a scope that does not bind the name reached the nearest of
\* two enclosing scopes that do
C9_Witness ==
    /\ last.op = "assign" /\ last.r.ok /\ last.name = "a"
    /\ environment = 3
    /\ ~Binds(heap, 3, "a") /\ Binds(heap, 2, "a") /\ Binds(heap, 1, "a")
    /\ heap[2].values["a"] = last.value
    /\ heap[1].values["a"] # last.value

\* C10: define(n, v) writes only the scope it is called on, overwriting an earlier
\* binding of n there and leaving the enclosing scopes alone; get(n) returns the
\* value of the innermost binding of n on the chain (v right after define(n, v),
\* the outer binding again once the defining block has exited) and fails with
\* "Undefined variable" exactly when no scope of the chain binds n.
C10_DefineLocalGetInnermost ==
    [][ /\ last'.op = "define" =>
             /\ Len(heap') = Len(heap)
             /\ \A e \in 1..Len(heap) : e # environment => heap'[e] = heap[e]
             /\ heap'[environment].enclosed = heap[environment].enclosed
             /\ DOMAIN heap'[environment].values =
                   DOMAIN heap[environment].values \cup {last'.name}
             /\ \A m \in DOMAIN heap'[environment].values :
                   heap'[environment].values[m] =
                      IF m = last'.name THEN last'.value
                      ELSE heap[environment].values[m]
             /\ get(heap', environment', IdentifierToken(last'.name, 1)) = Ok(last'.value)
        /\ last'.op = "get" =>
             IF Binders(heap, environment, last'.name) = {}
             THEN IsUndefined(last'.r, "Undefined variable: {}", last'.name)
             ELSE last'.r = Ok(heap[Innermost(heap, environment, last'.name)]
                                  .values[last'.name])
        /\ last'.op = "exit" =>
             \A n \in Names :
                LET outer == heap[environment].enclosed
                IN IF Binders(heap, outer, n) = {}
                   THEN ~get(heap', environment', IdentifierToken(n, 1)).ok
                   ELSE get(heap', environment', IdentifierToken(n, 1)) =
                           Ok(heap[Innermost(heap, outer, n)].values[n])
      ]_vars

\* a get in an inner scope returned that scope's binding while the global scope
\* binds the same name to another value
C10_Witness ==
    /\ last.op = "get" /\ last.r.ok
    /\ environment # global
    /\ Binds(heap, environment, last.name) /\ Binds(heap, global, last.name)
    /\ last.r.v = heap[environment].values[last.name]
    /\ last.r.v # heap[global].values[last.name]

----------------------------------------------------------------------------
(* Properties of the evaluator *)

Text(s) == [d |-> "text", s |-> s]
Num(n) == [d |-> "number", n |-> n]

\* Interpreter::interpret has returned to the driver
Finished == ctl.m = "idle" /\ program.name # "none"

Frames(k) == { i \in 1..Len(stack) : stack[i].k = k }

\* the scope of the innermost execute_block still running, the global scope if none
ScopeOf(st) ==
    LET blocks == { i \in 1..Len(st) : st[i].k = "execute_block" }
    IN IF blocks = {} THEN global
       ELSE st[CHOOSE i \in blocks : \A j \in blocks : j <= i].scope

Range(seq) == { seq[i] : i \in 1..Len(seq) }

\* C1: whenever execute_block exits, by completing, by a runtime error or by a
\* return signal, and at every nesting depth, the current environment is again the
\* handle that was current before the block or call was entered: in every state
\* the current environment is the scope of the innermost block or call body still
\* executing, and the global environment when there is none, as after interpret()
\* has returned Ok or an error.
C1_EnvironmentRestored ==
    /\ environment = ScopeOf(stack)
    /\ Finished => environment = global /\ stack = <<>>

\* interpret() returned a runtime error raised two scopes deep
C1_Witness ==
    /\ Finished
    /\ program.name = "nested" /\ program.leaf = "error" /\ Len(program.ws) = 2
    /\ "call" \in Range(program.ws) /\ "block" \in Range(program.ws)
    /\ ~result.ok /\ result.err.kind = "Standard"
    /\ Len(heap) >= 3
    /\ environment = global

\* C2: every call of a user function runs its body in a fresh scope, distinct from
\* the scope of every other call, whose parent is the environment captured when
\* the function value was created and not the caller's environment: a free
\* variable of the body resolves to the binding at the definition site even when
\* the caller has a local of the same name, and the locals of one call are not
\* visible to another call.
C2_FreshScopePerCall ==
    /\ \A i \in Frames("call") : i < Len(stack) =>
          /\ stack[i + 1].k = "execute_block"
          /\ heap[stack[i + 1].scope].enclosed = stack[i].callee.environment
          /\ heap[stack[i + 1].scope].enclosed # NoEnv
          /\ stack[i + 1].scope # stack[i + 1].old
    /\ \A i, j \in Frames("execute_block") : i # j => stack[i].scope # stack[j].scope
    /\ Finished /\ program.name = "lexical" =>
          result.ok /\ output = <<Text("global")>>
    /\ Finished /\ program.name = "leak" =>
          IsUndefined(result, "Undefined variable: {}", "mine") /\ output = <<>>
    /\ Finished /\ program.name = "recursion" =>
          result.ok /\ output = [i \in 1..(program.n + 1) |-> Num(i - 1)]

\* inside a call, a variable that the caller's scope binds and the call's own
\* scope does not is being looked up, the function's captured environment being
\* another scope than the caller's
C2_Witness ==
    /\ Evaluating("Variable")
    /\ \E i \in Frames("call") :
          /\ i < Len(stack) /\ stack[i + 1].scope = environment
          /\ stack[i + 1].old # stack[i].callee.environment
          /\ Binds(heap, stack[i + 1].old, ctl.expr.name.lexeme)
          /\ ~Binds(heap, environment, ctl.expr.name.lexeme)
          /\ get(heap, environment, ctl.expr.name).ok

\* C3: a function value created while environment E was current holds E itself,
\* and every later call of it reads and writes the bindings of E, not of a copy,
\* also after the block or call that created E has exited: what one call assigns
\* to a variable of E the next call observes (the counter prints 1, 2, 3, ...).
C3_ClosureSharesEnvironment ==
    /\ [][ Executing("Function") =>
             /\ heap'[environment].values[ctl.stmt.name.lexeme].environment = environment
             /\ Len(heap') = Len(heap) ]_vars
    /\ [](\A i \in Frames("call") : i < Len(stack) =>
             heap[stack[i + 1].scope].enclosed = stack[i].callee.environment)
    /\ [](Finished /\ program.name \in {"counter", "block counter"} =>
             result.ok /\ output = [i \in 1..program.n |-> Num(i)])
    /\ [](Finished /\ program.name = "shared" =>
             result.ok /\ output = <<Num(program.n)>>)

\* the counter made in a block that has exited was called twice and printed 1, 2
C3_Witness ==
    /\ Finished
    /\ program.name = "block counter" /\ program.n = 2
    /\ output = <<Num(1), Num(2)>>
    /\ heap[2].values["n"] = Number(2)

ReturnInFlight == ctl.m = "ret" /\ ~ctl.r.ok /\ ctl.r.err.kind = "Return"

\* C4: a return statement at any depth of blocks, ifs and whiles inside a function
\* body ends the innermost active call at once: the signal only pops frames (no
\* statement or expression runs) until it reaches the nearest call, which
\* evaluates to the returned value (Nil when there is none) and hands it to its
\* caller as an ordinary value; a body that completes without return makes the
\* call evaluate to Nil.
C4_ReturnEndsInnermostCall ==
    /\ [][ ReturnInFlight /\ Frames("call") # {} =>
             IF Top.k = "call"
             THEN /\ stack' = Below
                  /\ ctl' = Done(Ok(IF ctl.r.err.value = <<>> THEN Nil
                                    ELSE ctl.r.err.value[1]))
             ELSE /\ stack' = Below
                  /\ ctl' = ctl
                  /\ output' = output
                  /\ heap' = heap ]_vars
    /\ [][ ReturnedOk("call") => stack' = Below /\ ctl' = Done(Ok(Nil)) ]_vars
    /\ [](Finished /\ program.name = "nested" /\ Len(program.ws) > 0
            /\ program.ws[1] = "call" /\ "call" \notin Range(Tail(program.ws)) =>
             CASE program.leaf = "return value" ->
                     result.ok /\ output = <<Text("returned"), Text("end")>>
               [] program.leaf = "return" ->
                     result.ok /\ output = <<Text("nil"), Text("end")>>
               [] program.leaf = "normal" ->
                     result.ok /\ output[Len(output) - 1] = Text("nil")
               [] OTHER -> ~result.ok)

\* a return signal carrying a value is passing a while loop inside a call
C4_Witness ==
    /\ ReturnInFlight /\ ctl.r.err.value # <<>>
    /\ Top.k = "While"
    /\ Frames("call") # {}

\* C5: a return statement executed outside any call does not crash the
\* interpreter: interpret() returns an error to the driver, the statements after
\* it in the batch are not executed, and the bindings made before it remain in the
\* global environment.
C5_TopLevelReturn ==
    Finished /\ program.name = "nested" /\ "call" \notin Range(program.ws)
      /\ program.leaf \in {"return", "return value"} =>
        /\ ~result.ok /\ result.err.kind = "Return"
        /\ result.err.value = IF program.leaf = "return" THEN <<>>
                              ELSE <<String("returned")>>
        /\ output = <<>>
        /\ environment = global
        /\ Binds(heap, global, "before")
        /\ heap[global].values["before"] = Number(1)

\* a top-level batch returned from inside two nested statements
C5_Witness ==
    /\ Finished
    /\ program.name = "nested" /\ program.leaf = "return value"
    /\ program.ws = <<"while", "else">>
    /\ ~result.ok /\ result.err.kind = "Return"
    /\ Binds(heap, global, "before") /\ Binds(heap, global, "go")

NotCallableError(r) ==
    /\ ~r.ok
    /\ r.err.kind = "Standard"
    /\ r.err.msg.text = "Can only call functions and classes"

\* C6 as claimed: the callee is checked before any argument is evaluated, so a
\* callee that is not a Callable is rejected with no argument evaluated: no
\* argument side effect or argument error precedes or replaces that error.
C6_CalleeCheckedBeforeArguments ==
    /\ \A i \in Frames("CallArgs") :
          stack[i].callee.kind # "Callable" =>
             i = Len(stack) /\ ctl.m = "apply" /\ stack[i].done = <<>>
    /\ Finished /\ program.name = "not callable" =>
          /\ NotCallableError(result)
          /\ heap[global].values["a"] = Number(0)

\* C6 as the code has it: the callee is evaluated, then every argument, left to
\* right, and only then is a callee that is not a Callable rejected; so the
\* arguments' side effects have happened when "Can only call functions and
\* classes" is reported, and an error of an argument is reported instead of it.
C6_ArgumentsBeforeCalleeCheck ==
    /\ ctl.m = "apply" =>
          /\ Top.k = "CallArgs"
          /\ Top.rest = <<>>
          /\ Len(Top.done) = Len(Top.arguments)
    /\ \A i \in Frames("CallArgs") :
          LET f == stack[i]
              n == Len(f.arguments)
          IN /\ f.rest = SubSeq(f.arguments, n - Len(f.rest) + 1, n)
             /\ Len(f.done) = n - Len(f.rest)
                               - (IF i = Len(stack) /\ ctl.m = "apply" THEN 0 ELSE 1)
    /\ Finished /\ program.name = "not callable" =>
          /\ output = <<>>
          /\ IF Variable(Id("missing")) \in Range(program.args)
             THEN IsUndefined(result, "Undefined variable: {}", "missing")
             ELSE NotCallableError(result)
          /\ heap[global].values["a"] =
                IF program.args # <<>> /\ program.args[1].t = "Assignment"
                THEN Number(1) ELSE Number(0)

\* a call of a number was rejected after its argument had assigned a variable
C6_Witness ==
    /\ Finished
    /\ program.name = "not callable" /\ program.callee = ENumber(1)
    /\ program.args = <<Assignment(Id("a"), ENumber(1))>>
    /\ NotCallableError(result)
    /\ heap[global].values["a"] = Number(1)

\* C7: when the callee is a callable whose arity differs from the number of
\* arguments, the call fails with "Expected N arguments but got M", the function is
\* not invoked (no scope is created, no body statement runs) and the current
\* environment is unchanged; when the counts are equal, the call's scope binds
\* each parameter to the argument at the same position (the last such position
\* for a name that is repeated in the parameter list).
C7_ArityChecked ==
    /\ [][ Applying /\ Top.callee.kind = "Callable"
             /\ Top.callee.arity # Len(Top.done) =>
               /\ ctl' = Done(Err(Standard([text |-> "Expected {} arguments but got {} .",
                                            arity |-> Top.callee.arity,
                                            got |-> Len(Top.done)])))
               /\ stack' = Below
               /\ heap' = heap
               /\ environment' = environment
               /\ output' = output ]_vars
    /\ [][ Applying /\ Top.callee.kind = "Callable" /\ Top.callee.variant = "Function"
             /\ Top.callee.arity = Len(Top.done) =>
               LET tokens == Top.callee.func_stmt.params
                   params == [i \in 1..Len(tokens) |-> tokens[i].lexeme]
               IN /\ Len(heap') = Len(heap) + 1
                  /\ environment' = Len(heap) + 1
                  /\ DOMAIN heap'[environment'].values = Range(params)
                  /\ \A i \in 1..Len(params) :
                        (\A j \in (i + 1)..Len(params) : params[j] # params[i]) =>
                           heap'[environment'].values[params[i]] = Top.done[i] ]_vars
    /\ [](Finished /\ program.name = "arity" =>
             IF program.n = 2
             THEN /\ result.ok
                  /\ output = <<Num(IF program.second = "x" THEN 2 ELSE 1), Num(2),
                                Text("after")>>
             ELSE /\ ~result.ok
                  /\ result.err.msg.text = "Expected {} arguments but got {} ."
                  /\ result.err.msg.arity = 2
                  /\ result.err.msg.got = program.n
                  /\ output = <<>>
                  /\ Len(heap) = 2
                  /\ environment = global)

\* a call with one argument too many was refused without creating a scope
C7_Witness ==
    /\ Finished
    /\ program.name = "arity" /\ program.n = 3
    /\ ~result.ok /\ result.err.msg.got = 3
    /\ Len(heap) = 2

\* C8: for `and` and `or` the right operand is not evaluated when the left one
\* decides (left falsy for `and`, left truthy for `or`), and the result is the
\* value of an operand, uncoerced: the left value when it decides, otherwise the
\* value of the right operand.
C8_ShortCircuit ==
    /\ [][ ReturnedOk("Logical") =>
             LET left == ctl.r.v
                 falsy == left.kind = "Nil" \/ (left.kind = "Bool" /\ ~left.b)
                 decided == (discriminant(Top.op) = "And" /\ falsy)
                                \/ (discriminant(Top.op) = "Or" /\ ~falsy)
             IN /\ stack' = Below
                /\ heap' = heap
                /\ output' = output
                /\ ctl' = IF decided THEN ctl ELSE Eval(Top.right) ]_vars
    /\ [](Finished /\ program.name = "logical" =>
             LET falsy == program.left \in {ENil, EFalse}
                 decided == (program.op = "And" /\ falsy) \/ (program.op = "Or" /\ ~falsy)
                 shown == CASE program.left = ENil -> Text("nil")
                            [] program.left = EFalse -> Text("false")
                            [] program.left = ETrue -> Text("true")
                            [] program.left = ENumber(0) -> Num(0)
                            [] program.left = EString("") -> Text("")
             IN IF decided
                THEN result.ok /\ output = <<shown, Num(0)>>
                ELSE CASE program.right.t = "Assignment" ->
                            result.ok /\ output = <<Num(1), Num(1)>>
                       [] program.right.t = "Variable" ->
                            /\ IsUndefined(result, "Undefined variable: {}", "missing")
                            /\ output = <<>>
                       [] OTHER -> result.ok /\ output = <<Text("r"), Num(0)>>)

\* `0 or (a = 1)` printed 0 and left a at 0
C8_Witness ==
    /\ Finished
    /\ program.name = "logical" /\ program.op = "Or"
    /\ program.left = ENumber(0) /\ program.right.t = "Assignment"
    /\ output = <<Num(0), Num(0)>>

----------------------------------------------------------------------------
(* Properties of the scanner, the parser and the driver *)

\* The lexical grammar, read one character at a time: the characters that
\* begin or continue a token or are skipped
LexicalChars ==
    {"(", ")", "{", "}", ",", ".", "-", "+", ";", "*", "!", "=", "<", ">", "/",
     " ", "\r", "\t", "\n", "\"", "_"}
    \cup { DigitChars[i] : i \in DOMAIN DigitChars }
    \cup { LowerChars[i] : i \in DOMAIN LowerChars }
    \cup { UpperChars[i] : i \in DOMAIN UpperChars }

\* The error kinds a source text calls for, in source order: one
\* UnexpectedCharacter per character outside LexicalChars met outside strings
\* and comments, one UnterminatedString for a string still open at the end.
\* mode is "code", "string" or "comment"; i is the next character to read.
RECURSIVE ExpectedErrorsFrom(_, _, _)
ExpectedErrorsFrom(chars, i, mode) ==
    IF i > Len(chars)
    THEN IF mode = "string" THEN <<"UnterminatedString">> ELSE <<>>
    ELSE LET c == chars[i]
         IN CASE mode = "string" ->
                    ExpectedErrorsFrom(chars, i + 1, IF c = "\"" THEN "code" ELSE "string")
              [] mode = "comment" ->
                    ExpectedErrorsFrom(chars, i + 1, IF c = "\n" THEN "code" ELSE "comment")
              [] OTHER ->
                    IF c = "\"" THEN ExpectedErrorsFrom(chars, i + 1, "string")
                    ELSE IF c = "/" /\ i < Len(chars) /\ chars[i + 1] = "/"
                    THEN ExpectedErrorsFrom(chars, i + 2, "comment")
                    ELSE IF c \in LexicalChars THEN ExpectedErrorsFrom(chars, i + 1, "code")
                    ELSE <<"UnexpectedCharacter">> \o ExpectedErrorsFrom(chars, i + 1, "code")

ExpectedErrors(chars) == ExpectedErrorsFrom(chars, 1, "code")

C12_ScanResult ==
    scanned # NoResult =>
        LET expected == ExpectedErrors(source)
        IN /\ scanned.ok <=> expected = <<>>
           /\ scanned.ok =>
                 /\ scanned.v # <<>>
                 /\ \A i \in DOMAIN scanned.v :
                       discriminant(scanned.v[i]) = "EOF" <=> i = Len(scanned.v)
           /\ ~scanned.ok =>
                 [i \in DOMAIN scanned.err |-> scanned.err[i].error_type] = expected

\* The token slice starts with a logic_or expression followed by `=`
TargetThenEqual ==
    /\ scanned # NoResult /\ scanned.ok
    /\ parsed # NoResult
    /\ logic_or(scanned.v, 0).ok
    /\ check(scanned.v, logic_or(scanned.v, 0).current, "Equal")

\* for a Variable target and a right-hand side that parses, the statement is
\* the Assignment of the right-hand side, parsed as an assignment, to that name
AssignsToVariable(target, value) ==
    /\ parsed.ok => parsed.v[1] = ExprStmt(Assignment(target.v.name, value.v))
    /\ scanned.v[value.current + 1] = Op("Semicolon") /\ value.current + 2 = Len(scanned.v)
          => parsed.ok /\ Len(parsed.v) = 1

\* C13 as claimed: after a logic_or expression that is not a Variable and `=`,
\* the parse fails with "Invalid assignment target" at that `=`, whatever tokens
\* follow it; after a Variable and `=` the result is the Assignment of the
\* right-hand side, parsed as an assignment, to that name.
C13_InvalidTargetWhateverFollows ==
    TargetThenEqual =>
        LET target == logic_or(scanned.v, 0)
            equals == scanned.v[target.current + 1]
            value == assignment(scanned.v, target.current + 1)
        IN IF target.v.t # "Variable"
           THEN parsed = Err(<<format_error(equals, "Invalid assignment target.")>>)
           ELSE value.ok => AssignsToVariable(target, value)

\* C13 as the code has it: the right-hand side is parsed, as an assignment,
\* before the target is looked at.  When it does not parse, its diagnostic is the
\* result, for a Variable target and for any other; when it parses, a target that
\* is not a Variable gives "Invalid assignment target" at that `=` and a Variable
\* gives the Assignment to that name (so `a = b = c` is `a = (b = c)`).
C13_InvalidTargetAfterValue ==
    TargetThenEqual =>
        LET target == logic_or(scanned.v, 0)
            equals == scanned.v[target.current + 1]
            value == assignment(scanned.v, target.current + 1)
        IN IF ~value.ok THEN parsed = Err(<<value.err>>)
           ELSE IF target.v.t # "Variable"
           THEN parsed = Err(<<format_error(equals, "Invalid assignment target.")>>)
           ELSE AssignsToVariable(target, value)

\* `1 = =`: the target is not a Variable and the right-hand side does not parse
C13_Witness ==
    /\ TargetThenEqual
    /\ scanned.v = AssignInput(<<One>>, <<Op("Equal")>>)
    /\ parsed = Err(<<format_error(Op("Equal"), "Expected expression.")>>)

\* C14: with the cap of 255 as the parameter ArgumentCap / ParameterCap: a call
\* with at most cap arguments and a function declaration with at most cap
\* parameters parse, to a Call holding every argument and a function holding every
\* parameter; with cap + 1 or more of them the parse is an error, reported at the
\* item after the cap-th.
C14_ItemCaps ==
    parsed # NoResult =>
        /\ \A n \in 0..(ArgumentCap + 1) :
              scanned.v = CallTokens(n) =>
                 IF n <= ArgumentCap
                 THEN parsed = Ok(<<ExprStmt(Call(Variable(Id("f")), Op("RightParen"),
                                                  [i \in 1..n |-> ENumber(1)]))>>)
                 ELSE parsed = Err(<<format_error(One, "Cannot have more than 255 arguments")>>)
        /\ \A n \in 0..(ParameterCap + 1) :
              scanned.v = FunTokens(n) =>
                 IF n <= ParameterCap
                 THEN parsed = Ok(<<FuncStmt(Id("f"), [i \in 1..n |-> Id("a")], <<>>)>>)
                 ELSE parsed = Err(<<format_error(Id("a"),
                                                  "Cannot have more than 255 parameters.")>>)

\* a call with exactly ArgumentCap arguments has been parsed
C14_Witness ==
    /\ scanned.v = CallTokens(ArgumentCap)
    /\ parsed # NoResult /\ parsed.ok
    /\ Len(parsed.v[1].e.arguments) = ArgumentCap

\* What interpret_expression and interpret_binary_expression match without
\* reaching a panic! branch, whatever the operands evaluate to
RECURSIVE EvaluatorAccepts(_)
EvaluatorAccepts(e) ==
    CASE e.t \in {"Number", "String", "True", "False", "Nil"} -> TRUE
      [] e.t = "Grouping" -> EvaluatorAccepts(e.e)
      [] e.t = "Unary" ->
            /\ discriminant(e.op) \in {"Bang", "Minus"}
            /\ EvaluatorAccepts(e.e)
      [] e.t = "Binary" ->
            /\ discriminant(e.op) \in {"Plus", "Minus", "Star", "Slash", "Less", "LessEqual",
                                       "Greater", "GreaterEqual", "EqualEqual", "BangEqual"}
            /\ EvaluatorAccepts(e.l) /\ EvaluatorAccepts(e.r)
      [] e.t = "Variable" -> discriminant(e.name) = "Identifier"
      [] e.t = "Assignment" ->
            /\ discriminant(e.name) = "Identifier"
            /\ EvaluatorAccepts(e.e)
      [] e.t = "Logical" ->
            /\ discriminant(e.op) \in {"And", "Or"}
            /\ EvaluatorAccepts(e.l) /\ EvaluatorAccepts(e.r)
      [] e.t = "Call" ->
            /\ EvaluatorAccepts(e.callee)
            /\ \A i \in DOMAIN e.arguments : EvaluatorAccepts(e.arguments[i])
      [] OTHER -> FALSE

\* the same for interpret_statement, with the parameters of a function
RECURSIVE EvaluatorAcceptsStmt(_)
EvaluatorAcceptsStmt(stmt) ==
    CASE stmt.t \in {"Print", "Expr"} -> EvaluatorAccepts(stmt.e)
      [] stmt.t = "Var" ->
            /\ discriminant(stmt.name) = "Identifier"
            /\ \A i \in DOMAIN stmt.init : EvaluatorAccepts(stmt.init[i])
      [] stmt.t = "Block" ->
            \A i \in DOMAIN stmt.statements : EvaluatorAcceptsStmt(stmt.statements[i])
      [] stmt.t = "If" ->
            /\ EvaluatorAccepts(stmt.cond)
            /\ EvaluatorAcceptsStmt(stmt.then)
            /\ \A i \in DOMAIN stmt.else : EvaluatorAcceptsStmt(stmt.else[i])
      [] stmt.t = "While" -> EvaluatorAccepts(stmt.cond) /\ EvaluatorAcceptsStmt(stmt.body)
      [] stmt.t = "Function" ->
            /\ discriminant(stmt.name) = "Identifier"
            /\ \A i \in DOMAIN stmt.params : discriminant(stmt.params[i]) = "Identifier"
            /\ \A i \in DOMAIN stmt.body : EvaluatorAcceptsStmt(stmt.body[i])
      [] stmt.t = "Ret" -> \A i \in DOMAIN stmt.value : EvaluatorAccepts(stmt.value[i])
      [] OTHER -> FALSE

\* C19: every tree the parser returns is one the evaluator accepts: the token of
\* each Variable, Assignment, Var, function name and parameter is an Identifier,
\* each Unary operator is `!` or `-`, each Logical operator `and` or `or`, each
\* Binary operator one of + - * / < <= > >= == !=, and no other kind of node
\* occurs; so no panic! branch of the evaluator is reached from it.
C19_ParserTreesAccepted ==
    parsed # NoResult /\ parsed.ok =>
        \A i \in DOMAIN parsed.v : EvaluatorAcceptsStmt(parsed.v[i])

\* a function with two parameters has been parsed, from a slice that has a
\* token of another kind where the second parameter could be a Number
C19_Witness ==
    /\ parsed # NoResult /\ parsed.ok
    /\ scanned.v = HoleInput("second param", Id("a"))
    /\ parsed.v[1].t = "Function" /\ Len(parsed.v[1].params) = 2

\* the clauses and the body of the loop of ForTokens, as trees
ForInitializer == Var(Id("i"), <<Call(Variable(Id("p")), Op("RightParen"), <<ENumber(0)>>)>>)
ForCondition(n) ==
    Call(Variable(Id("p")), Op("RightParen"),
         <<Binary(Variable(Id("i")), Op("Less"), ENumber(n))>>)
ForIncrement ==
    Assignment(Id("i"), Call(Variable(Id("p")), Op("RightParen"),
                             <<Binary(Variable(Id("i")), Op("Plus"), ENumber(1))>>))
ForBody(cond, incr, n) ==
    Block((IF cond THEN <<>>
           ELSE <<If(Binary(Variable(Id("i")), Op("GreaterEqual"), ENumber(n)),
                     Ret(<<>>), <<>>)>>)
          \o <<SPrint(EString("body"))>>
          \o (IF incr THEN <<>>
              ELSE <<ExprStmt(Assignment(Id("i"), Binary(Variable(Id("i")), Op("Plus"),
                                                         ENumber(1))))>>))

\* what the loop prints in iterations k .. n - 1 and at the test that ends it
RECURSIVE ForIterations(_, _, _, _)
ForIterations(cond, incr, k, n) ==
    IF k >= n THEN (IF cond THEN <<Text("false")>> ELSE <<>>)
    ELSE (IF cond THEN <<Text("true")>> ELSE <<>>)
         \o <<Text("body")>>
         \o (IF incr THEN <<Num(k + 1)>> ELSE <<>>)
         \o ForIterations(cond, incr, k + 1, n)

\* the lines of the whole program: the initializer once, the iterations, and
\* the `print i;` after the loop, which reads the loop's own i only if the loop
\* has declared none
ForOutput(init, cond, incr, n) ==
    (IF init THEN <<Num(0)>> ELSE <<>>)
    \o ForIterations(cond, incr, 0, n)
    \o <<Num(IF init THEN 0 ELSE n)>>

IsPrefix(s, t) == Len(s) <= Len(t) /\ s = SubSeq(t, 1, Len(s))

\* C15: `for (init; cond; incr) body` parses to Block[init, While(cond,
\* Block[body, incr])] and to no other node, with `true` for a missing cond, body
\* alone for a missing incr and the While alone in the outer block for a missing
\* init.  Evaluated, init runs once, in a scope that ends with the loop; cond is
\* tested before each iteration; incr runs after each completed body and before
\* the next test.
C15_ForDesugared ==
    program.name = "for" =>
        LET loop == program.body[3].body[1]
            expected == ForOutput(program.init, program.cond, program.incr, program.n)
        IN /\ loop = Block((IF program.init THEN <<ForInitializer>> ELSE <<>>)
                           \o <<While(IF program.cond THEN ForCondition(program.n) ELSE ETrue,
                                      IF program.incr
                                      THEN Block(<<ForBody(program.cond, program.incr, program.n),
                                                   ExprStmt(ForIncrement)>>)
                                      ELSE ForBody(program.cond, program.incr, program.n))>>)
           /\ IsPrefix(output, expected)
           /\ Finished => result = Ok(Unit) /\ output = expected

\* a loop with its three clauses has run MaxIterations times
C15_Witness ==
    /\ program.name = "for" /\ program.init /\ program.cond /\ program.incr
    /\ program.n = MaxIterations
    /\ Finished
    /\ Len(output) = 3 * MaxIterations + 3

ClockCall == Call(Variable(Id("clock")), Paren, <<>>)

\* C16 as claimed: a new interpreter binds `clock` in the global scope with arity
\* 0, and a call of it with no arguments evaluates to a Number: `print clock();`
\* ends without error having printed a number, and so does
\* `print clock() - clock();`.
C16_ClockReturnsNumber ==
    /\ program.name = "none" =>
          /\ get(heap, global, Id("clock")).ok
          /\ get(heap, global, Id("clock")).v.kind = "Callable"
          /\ get(heap, global, Id("clock")).v.arity = 0
    /\ /\ program.name = "print"
       /\ program.e \in {ClockCall, Binary(ClockCall, Op("Minus"), ClockCall)}
       /\ Finished
       => /\ result = Ok(Unit)
          /\ output # <<>>
          /\ output[Len(output)].d = "number"

\* the kind of value an operand of EqOperands evaluates to
KindOf(e) ==
    CASE e.t \in {"Number", "Binary"} -> "Number"
      [] e.t = "String" -> "String"
      [] e.t \in {"True", "False"} -> "Bool"
      [] e.t = "Nil" -> "Nil"
      [] OTHER -> "Callable"

\* C17: for every pair of values `==` and `!=` do not fail and `a != b` is the
\* negation of `a == b`; values of different kinds are unequal, nil equals nil,
\* two booleans and two strings are equal exactly when they are the same, and a
\* pair with a callable in it is unequal, also a callable and itself.
C17_Equality ==
    program.name = "equality" /\ Finished =>
        LET l == program.left
            r == program.right
        IN /\ result = Ok(Unit)
           /\ Len(output) = 2
           /\ output[1] \in {Text("true"), Text("false")}
           /\ output[2] \in {Text("true"), Text("false")}
           /\ output[2] # output[1]
           /\ KindOf(l) # KindOf(r) => output[1] = Text("false")
           /\ KindOf(l) = "Callable" \/ KindOf(r) = "Callable" => output[1] = Text("false")
           /\ KindOf(l) = "Nil" /\ KindOf(r) = "Nil" => output[1] = Text("true")
           /\ KindOf(l) = KindOf(r) /\ KindOf(l) \in {"Bool", "String"}
                 => (output[1] = Text("true") <=> l = r)

\* a user function has been compared with itself
C17_Witness ==
    /\ program.name = "equality" /\ Finished
    /\ program.left = Variable(Id("f")) /\ program.right = Variable(Id("f"))
    /\ output = <<Text("false"), Text("true")>>

\* the line an operand of the given kind prints when it is evaluated, if any
LeftLine(kind) ==
    CASE kind = "number" -> <<Num(1)>> [] kind = "string" -> <<Text("l")>> [] OTHER -> <<>>
RightLine(kind) ==
    CASE kind = "number" -> <<Num(2)>> [] kind = "string" -> <<Text("r")>> [] OTHER -> <<>>

TypeError(text) == Err(Standard([text |-> text, line |-> 1]))

\* what the operator of `binary order` makes of two operands that evaluated
Operated(op, l, r) ==
    CASE op = "Plus" /\ l = "number" /\ r = "number" -> [lines |-> <<Num(3)>>, r |-> Ok(Unit)]
      [] op = "Plus" /\ l = "string" /\ r = "string" -> [lines |-> <<Text("lr")>>, r |-> Ok(Unit)]
      [] op = "Plus" ->
            [lines |-> <<>>,
             r |-> TypeError("Error in line: {}, operands must both be numbers or strings.")]
      [] op = "Minus" /\ l = "number" /\ r = "number" -> [lines |-> <<Num(0 - 1)>>, r |-> Ok(Unit)]
      [] op = "Minus" ->
            [lines |-> <<>>, r |-> TypeError("Error in line: {}, operands must both be numbers.")]
      [] op = "Call" -> [lines |-> <<Num(0)>>, r |-> Ok(Unit)]

\* the lines and the result of a program of `binary order` or `call order`:
\* before, (the callee,) the left operand, the right operand, the operator,
\* after, up to the first of them that fails
OrderExpected(op, l, r) ==
    LET start == <<Text("before")>>
                 \o (IF op = "Call" THEN <<[d |-> "Function : ", n |-> 2]>> ELSE <<>>)
    IN IF l = "fails" THEN [lines |-> start, r |-> Err(UndefinedGet("missing_l"))]
       ELSE IF r = "fails"
       THEN [lines |-> start \o LeftLine(l), r |-> Err(UndefinedGet("missing_r"))]
       ELSE LET operated == Operated(op, l, r)
            IN [lines |-> start \o LeftLine(l) \o RightLine(r) \o operated.lines
                          \o (IF operated.r.ok THEN <<Text("after")>> ELSE <<>>),
                r |-> operated.r]

\* C18: evaluation is left to right.  In a binary expression the left operand is
\* evaluated, with its side effects, before the right one, and both before the
\* operator checks their types; in a call the callee is evaluated, then the
\* arguments in list order; the statements of a list run in order; and when an
\* operand, an argument or a statement fails, nothing after it is evaluated.
C18_LeftToRight ==
    program.name \in {"binary order", "call order"} =>
        LET expected == OrderExpected(IF program.name = "call order" THEN "Call" ELSE program.op,
                                      program.left, program.right)
        IN /\ IsPrefix(output, expected.lines)
           /\ Finished => output = expected.lines /\ result = expected.r

\* `print p("l") - p(2);` has printed both operands and failed at the operator
C18_Witness ==
    /\ program.name = "binary order" /\ program.op = "Minus"
    /\ program.left = "string" /\ program.right = "number"
    /\ Finished
    /\ output = <<Text("before"), Text("l"), Num(2)>>
    /\ ~result.ok

\* following the parent links from scope e for at most `steps` links ends in the
\* global scope
RECURSIVE EndsInGlobal(_, _, _)
EndsInGlobal(h, e, steps) ==
    IF e = global THEN h[global].enclosed = NoEnv
    ELSE IF e \notin DOMAIN h \/ steps = 0 THEN FALSE
    ELSE EndsInGlobal(h, h[e].enclosed, steps - 1)

\* the scopes captured by the function values stored in the scopes of h
Captured(h) ==
    UNION { { h[e].values[n].environment :
                n \in { m \in DOMAIN h[e].values :
                          /\ h[e].values[m].kind = "Callable"
                          /\ h[e].values[m].variant = "Function" } } :
            e \in DOMAIN h }

\* C20: in every state the global scope has no parent and the parent links are
\* acyclic: from the current scope, from the scope captured by any function value
\* and from every other scope, following the links passes no scope twice and
\* ends in the global scope, so the walks of get and assign end.
C20_ChainsEndInGlobal ==
    /\ heap[global].enclosed = NoEnv
    /\ EndsInGlobal(heap, environment, Len(heap))
    /\ \A e \in Captured(heap) : EndsInGlobal(heap, e, Len(heap))
    /\ \A e \in DOMAIN heap :
          /\ EndsInGlobal(heap, e, Len(heap))
          /\ Len(Chain(heap, e)) = Cardinality(Range(Chain(heap, e)))

\* a call is running in a scope three links from the global one, made for a
\* function that captured a scope other than the global one
C20_Witness ==
    /\ Len(Chain(heap, environment)) >= 3
    /\ \E e \in Captured(heap) : e # global
    /\ \E i \in DOMAIN stack : stack[i].k = "call"

\* the lines the shadow program prints: "global" for every call before the
\* declaration in the block, "block" for every call after it, "global" for the
\* print after the block
ShadowOutput(before, after) ==
    [i \in 1..(before + after + 1) |->
        IF before < i /\ i <= before + after THEN Text("block") ELSE Text("global")]

\* C21: a variable is looked up when the reference is evaluated. A reference to
\* `a` in the body of a function evaluates to the binding of `a` in the scope
\* the function captured as soon as a `var a` has put one there, and to the
\* binding of the enclosing scope before that: one call prints the outer value
\* and a later call of the same function the value declared in between. The
\* outer binding keeps its value.
C21_LateDeclarationShadows ==
    /\ [][ program.name = "shadow" /\ Evaluating("Variable") /\ Frames("call") # {} =>
             \A i \in Frames("call") :
                ctl' = Done(Ok(IF Binds(heap, stack[i].callee.environment, "a")
                               THEN heap[stack[i].callee.environment].values["a"]
                               ELSE heap[global].values["a"])) ]_vars
    /\ [](program.name = "shadow" /\ Binds(heap, global, "a") =>
             heap[global].values["a"] = String("global"))
    /\ [](Finished /\ program.name = "shadow" =>
             result.ok /\ output = ShadowOutput(program.before, program.after))

\* the function has printed the outer value, the block has declared its own `a`
\* since, and a later call of the function is looking `a` up
C21_Witness ==
    /\ program.name = "shadow"
    /\ Evaluating("Variable")
    /\ output # <<>> /\ output[1] = Text("global")
    /\ \E i \in Frames("call") :
          /\ stack[i].callee.environment # global
          /\ Binds(heap, stack[i].callee.environment, "a")
          /\ heap[stack[i].callee.environment].values["a"] = String("block")
          /\ heap[global].values["a"] = String("global")

\* the positions the cursor of a slice can take: 0 up to the last token
Cursors(tokens) == 0..(Len(tokens) - 1)

\* what a parsing method started at `current` returned is an error, or an Ok
\* that consumed at least one token and left the cursor on a token of the slice
Advances(tokens, current, res) ==
    res.ok => current < res.current /\ res.current \in Cursors(tokens)

\* no `}` from the cursor on
LeftOpen(tokens, current) ==
    \A i \in (current + 1)..Len(tokens) : discriminant(tokens[i]) # "RightBrace"

\* C22: for a token slice that ends with EOF, Parser::parse returns a statement
\* list, with the cursor on the EOF token, or one error. From every cursor of
\* the slice, what one iteration of each parsing loop runs (a declaration of the
\* program or of a block, an argument, a parameter name, an operator and its
\* operand in a binary or logical chain, a parenthesised argument list in a call
\* chain) returns an error or consumes at least one token, and every method
\* leaves the cursor at or before the EOF token, so that peek reads a token of
\* the slice and previous the token just consumed. A block with no closing brace
\* before EOF is an error.
C22_ParseTerminates ==
    \A tokens \in {scanned.v} :
        /\ discriminant(tokens[Len(tokens)]) = "EOF"
        /\ parsed # NoResult =>
              /\ parsed = parse(tokens)
              /\ IF parsed.ok THEN DOMAIN parsed.v = 1..Len(parsed.v)
                              ELSE Len(parsed.err) = 1
              /\ parsed.ok <=> parse_statements(tokens).ok
              /\ parsed.ok => parse_statements(tokens).current = Len(tokens) - 1
        /\ \A current \in Cursors(tokens) :
              /\ Advances(tokens, current, declaration(tokens, current))
              /\ Advances(tokens, current, expression(tokens, current))
              /\ Advances(tokens, current,
                          consume(tokens, current, "Identifier", "Expected parameter name."))
              /\ Advances(tokens, current, logic_and(tokens, current))
              /\ Advances(tokens, current, equality(tokens, current))
              /\ \A level \in {"equality", "comparison", "addition", "multiplication"} :
                    /\ Advances(tokens, current, subexpression(level, tokens, current))
                    /\ match_type(tokens, current, BinaryTokenTypes(level)) =>
                          /\ current + 1 \in Cursors(tokens)
                          /\ Advances(tokens, current,
                                      subexpression(level, tokens, current + 1))
              /\ match_type(tokens, current, {"And", "Or", "Comma", "LeftParen"}) =>
                    current + 1 \in Cursors(tokens)
              /\ match_type(tokens, current, {"LeftParen"}) =>
                    Advances(tokens, current, finish_call(tokens, current + 1, ENil))
              /\ Advances(tokens, current, block(tokens, current))
              /\ block(tokens, current).ok =>
                    discriminant(Parser_previous(tokens, block(tokens, current).current))
                       = "RightBrace"
              /\ LeftOpen(tokens, current) => ~block(tokens, current).ok
              /\ Parser_is_at_end(tokens, current) => ~declaration(tokens, current).ok

\* a block was left open at EOF after a statement of its body had been parsed:
\* the block loop went around once, reached EOF and the parse is an error
C22_Witness ==
    /\ parsed # NoResult /\ ~parsed.ok
    /\ discriminant(scanned.v[1]) = "LeftBrace"
    /\ LeftOpen(scanned.v, 1)
    /\ declaration(scanned.v, 1).ok
    /\ Parser_is_at_end(scanned.v, declaration(scanned.v, 1).current)

====
